---- MODULE Spec2Model ----
(***************************************************************************)
(* Model of the message codecs of the Swift-Alliance repository:           *)
(* swift_messages.py (format_amount, generate_mt103, generate_pain001),    *)
(* swift_alliance_streamlit.py (format_decimal, build_mt_message,          *)
(* generate_pain001_xml, the Compose handler of the Streamlit script) and  *)
(* streamlit_client.py (build_message_text).                               *)
(*                                                                         *)
(* A text is a sequence of symbols.  A symbol is one character, written    *)
(* as a one-character string; a few fixed literals of the source whose     *)
(* inside no operation looks at ("XXXX0000000000}", "Sender Details")      *)
(* are kept as one symbol each.  No input alphabet holds a fragment of     *)
(* such a literal, so two texts are equal exactly when their symbol        *)
(* sequences are.                                                          *)
(***************************************************************************)
EXTENDS Integers, Sequences, FiniteSets, TLC

VARIABLES entry, arg, result, session_state, clock, run, files, gui

vars == <<entry, arg, result, session_state, clock, run, files, gui>>

(***************************************************************************)
(* Python str operations                                                   *)
(***************************************************************************)
NL == "\n"
CR == "\r"

RECURSIVE Concat(_)
\* "".join(parts), by halves
Concat(parts) ==
    IF Len(parts) = 0 THEN <<>>
    ELSE IF Len(parts) = 1 THEN parts[1]
    ELSE LET h == Len(parts) \div 2
         IN  Concat(SubSeq(parts, 1, h)) \o Concat(SubSeq(parts, h + 1, Len(parts)))

\* "\n".join(lines)
JoinLines(lines) ==
    Concat([i \in 1..Len(lines) |-> IF i = 1 THEN lines[i] ELSE <<NL>> \o lines[i]])

\* the position of the k-th occurrence of a symbol of seps in text
Occurrence(text, seps, k) ==
    CHOOSE i \in 1..Len(text) :
        text[i] \in seps /\ Cardinality({j \in 1..(i - 1) : text[j] \in seps}) = k - 1

\* the pieces of text between the symbols of seps: never empty, keeps empty pieces
SplitAt(text, seps) ==
    LET n == Cardinality({i \in 1..Len(text) : text[i] \in seps})
        from(k) == IF k = 1 THEN 1 ELSE Occurrence(text, seps, k - 1) + 1
        to(k) == IF k = n + 1 THEN Len(text) ELSE Occurrence(text, seps, k) - 1
    IN  [k \in 1..(n + 1) |-> SubSeq(text, from(k), to(k))]

\* text.split(sep) for a one-symbol separator
SplitOn(text, sep) == SplitAt(text, {sep})

\* the lines of a text built by "\n".join(...)
Lines(text) == SplitOn(text, NL)

StartsWith(text, prefix) ==
    /\ Len(text) >= Len(prefix)
    /\ SubSeq(text, 1, Len(prefix)) = prefix

\* text.replace(a, b) for one-symbol a and b
Replace(text, a, b) ==
    [i \in 1..Len(text) |-> IF text[i] = a THEN b ELSE text[i]]

\* the characters str.strip() removes
Whitespace == {" ", NL, CR, "\t", "\f"}

\* text.strip()
Strip(text) ==
    LET inked == {i \in 1..Len(text) : text[i] \notin Whitespace}
    IN  IF inked = {} THEN <<>>
        ELSE SubSeq(text, CHOOSE i \in inked : \A j \in inked : i <= j,
                          CHOOSE i \in inked : \A j \in inked : i >= j)

\* the number of occurrences of symbol c in text
Count(text, c) == Cardinality({i \in 1..Len(text) : text[i] = c})

(***************************************************************************)
(* Outcomes of a call: a returned value or a raised exception              *)
(***************************************************************************)
Return(v) == [exc |-> "", val |-> v]
Raise(e) == [exc |-> e, val |-> <<>>]
NotCalled == [exc |-> "<not called>", val |-> <<>>]
Returned(r) == r.exc = ""
Raised(r) == r.exc \notin {"", "<not called>"}

(***************************************************************************)
(* decimal.Decimal: sign, coefficient digits, exponent; NaN and Infinity   *)
(***************************************************************************)
DigitChars == <<"0", "1", "2", "3", "4", "5", "6", "7", "8", "9">>
DigitChar(d) == DigitChars[d + 1]
IsDigitChar(c) == \E d \in 0..9 : DigitChar(d) = c
DigitOf(c) == CHOOSE d \in 0..9 : DigitChar(d) = c

Finite(sign, int, exp) == [kind |-> "finite", sign |-> sign, int |-> int, exp |-> exp]
NaN(sign, payload) == [kind |-> "nan", sign |-> sign, int |-> payload, exp |-> 0]
SNaN(sign, payload) == [kind |-> "snan", sign |-> sign, int |-> payload, exp |-> 0]
Infinity(sign) == [kind |-> "inf", sign |-> sign, int |-> <<0>>, exp |-> 0]

Zeros(n) == [i \in 1..n |-> 0]

RECURSIVE StripLeadingZeros(_)
\* str(int(digits)): no leading zero, "0" for zero
StripLeadingZeros(digits) ==
    IF Len(digits) > 1 /\ Head(digits) = 0 THEN StripLeadingZeros(Tail(digits))
    ELSE IF digits = <<>> THEN <<0>> ELSE digits

RECURSIVE Increment(_)
\* str(int(coeff) + 1) on a digit sequence
Increment(digits) ==
    IF digits = <<>> THEN <<1>>
    ELSE LET n == Len(digits)
         IN  IF digits[n] < 9 THEN [digits EXCEPT ![n] = @ + 1]
             ELSE Increment(SubSeq(digits, 1, n - 1)) \o <<0>>

AllZero(digits) == \A i \in 1..Len(digits) : digits[i] = 0

\* the precision of the default decimal context
DecimalPrec == 28

\* Decimal._round_half_up: 1 when the first dropped digit is 5 or more
RoundHalfUp(int, keep) == IF int[keep + 1] >= 5 THEN 1 ELSE 0

\* Decimal._round_half_even
RoundHalfEven(int, keep) ==
    IF int[keep + 1] > 5 THEN 1
    ELSE IF int[keep + 1] < 5 THEN 0
    ELSE IF ~AllZero(SubSeq(int, keep + 2, Len(int))) THEN 1
    ELSE IF keep > 0 /\ int[keep] % 2 = 1 THEN 1
    ELSE 0

\* Decimal._pick_rounding_function[rounding]
Rounding(mode, int, keep) ==
    CASE mode = "ROUND_HALF_UP" -> RoundHalfUp(int, keep)
      [] mode = "ROUND_HALF_EVEN" -> RoundHalfEven(int, keep)
      [] mode = "ROUND_DOWN" -> 0

\* Decimal._rescale(exp, rounding): the coefficient at exponent exp
Rescale(d, exp, mode) ==
    IF d.exp >= exp THEN d.int \o Zeros(d.exp - exp)
    ELSE
        LET digits == Len(d.int) + d.exp - exp
            int  == IF digits < 0 THEN <<1>> ELSE d.int
            keep == IF digits < 0 THEN 0 ELSE digits
            coeff == IF keep = 0 THEN <<0>> ELSE SubSeq(int, 1, keep)
        IN  IF Rounding(mode, int, keep) = 1 THEN Increment(coeff) ELSE coeff

\* Decimal.quantize(Decimal('0.01'), rounding=mode) in the default context
Quantize(d, mode) ==
    IF d.kind = "nan" THEN Return(d)
    ELSE IF d.kind # "finite" THEN Raise("InvalidOperation")
    ELSE IF AllZero(d.int) THEN Return(Finite(d.sign, <<0>>, -2))
    ELSE IF (d.exp + Len(d.int) - 1) + 2 + 1 > DecimalPrec THEN Raise("InvalidOperation")
    ELSE LET coeff == Rescale(d, -2, mode)
         IN  IF Len(coeff) > DecimalPrec THEN Raise("InvalidOperation")
             ELSE Return(Finite(d.sign, coeff, -2))

\* format(d, 'f') of a quantized value (exponent -2) or of a NaN
FormatF(d) ==
    LET sgn == IF d.sign = 1 THEN <<"-">> ELSE <<>>
        chars == [i \in 1..Len(d.int) |-> DigitChar(d.int[i])]
    IN  IF d.kind = "nan" THEN sgn \o <<"N", "a", "N">> \o chars
        ELSE LET dotplace == Len(chars) + d.exp
                 intpart == IF dotplace <= 0 THEN <<"0">> ELSE SubSeq(chars, 1, dotplace)
                 fracpart == IF dotplace <= 0
                             THEN [i \in 1..(-dotplace) |-> "0"] \o chars
                             ELSE SubSeq(chars, dotplace + 1, Len(chars))
             IN  sgn \o intpart \o <<".">> \o fracpart

\* format(q, 'f') of the outcome of quantize
FormatQuantized(q) == IF Raised(q) THEN q ELSE Return(FormatF(q.val))

\* swift_messages.format_amount(amount, currency)
format_amount(amount, currency) == FormatQuantized(Quantize(amount, "ROUND_HALF_UP"))

\* format_decimal with the context's default rounding
format_decimal_half_even(value) == FormatQuantized(Quantize(value, "ROUND_HALF_EVEN"))

\* swift_alliance_streamlit.format_decimal(value)
format_decimal(value) == FormatQuantized(Quantize(value, "ROUND_HALF_UP"))

(***************************************************************************)
(* Decimal(text): the constructor's parse of a string                      *)
(***************************************************************************)
\* str.lower() on the letters the Decimal grammar reads
Lower(c) ==
    CASE c = "N" -> "n" [] c = "A" -> "a" [] c = "I" -> "i" [] c = "F" -> "f"
      [] c = "T" -> "t" [] c = "Y" -> "y" [] c = "S" -> "s" [] c = "E" -> "e"
      [] OTHER -> c

LowerText(text) == [i \in 1..Len(text) |-> Lower(text[i])]

\* text.replace(c, "")
Remove(text, c) == Concat([i \in 1..Len(text) |-> IF text[i] = c THEN <<>> ELSE <<text[i]>>])

\* the length of the longest prefix of digits
DigitPrefixLen(text) ==
    Cardinality({n \in 1..Len(text) : \A i \in 1..n : IsDigitChar(text[i])})

AllDigits(text) == \A i \in 1..Len(text) : IsDigitChar(text[i])
DigitsOf(text) == [i \in 1..Len(text) |-> DigitOf(text[i])]
CharsOf(digits) == [i \in 1..Len(digits) |-> DigitChar(digits[i])]

RECURSIVE ToInt(_)
\* int(digits)
ToInt(digits) ==
    IF digits = <<>> THEN 0
    ELSE 10 * ToInt(SubSeq(digits, 1, Len(digits) - 1)) + digits[Len(digits)]

\* the end of the numeric branch: [E [sign] digits] and nothing after it
ParseExponent(sign, digits, fracLen, r3) ==
    LET hasExp == r3 # <<>> /\ r3[1] = "e"
        r4 == IF hasExp THEN Tail(r3) ELSE r3
        hasSign == hasExp /\ r4 # <<>> /\ r4[1] \in {"+", "-"}
        r5 == IF hasSign THEN Tail(r4) ELSE r4
        e == IF ~hasExp THEN 0
             ELSE IF hasSign /\ r4[1] = "-" THEN 0 - ToInt(DigitsOf(r5))
             ELSE ToInt(DigitsOf(r5))
    IN  IF hasExp /\ (r5 = <<>> \/ ~AllDigits(r5)) THEN Raise("InvalidOperation")
        ELSE IF ~hasExp /\ r3 # <<>> THEN Raise("InvalidOperation")
        ELSE Return(Finite(sign, StripLeadingZeros(DigitsOf(digits)), e - fracLen))

\* the fraction of the numeric branch: [. digits], after the integer digits
ParseFraction(sign, intp, r1) ==
    LET hasDot == r1 # <<>> /\ r1[1] = "."
        n2 == IF hasDot THEN DigitPrefixLen(Tail(r1)) ELSE 0
        skip == IF hasDot THEN 1 + n2 ELSE 0
    IN  IF ~(intp # <<>> \/ (hasDot /\ n2 > 0)) THEN Raise("InvalidOperation")
        ELSE ParseExponent(sign, intp \o SubSeq(r1, 2, skip), n2,
                           SubSeq(r1, skip + 1, Len(r1)))

\* the numeric branch of the grammar: digits [. digits] [E [sign] digits]
ParseNumber(sign, s) ==
    ParseFraction(sign, SubSeq(s, 1, DigitPrefixLen(s)),
                  SubSeq(s, DigitPrefixLen(s) + 1, Len(s)))

\* the NaN payload: its digits without leading zeros, none for zero
Payload(t) == IF t = <<>> \/ AllZero(DigitsOf(t)) THEN <<>> ELSE StripLeadingZeros(DigitsOf(t))

\* a sign and a lower-cased body: Inf, NaN, sNaN or a number
ParseUnsigned(sign, s) ==
    IF s \in {<<"i", "n", "f">>, <<"i", "n", "f", "i", "n", "i", "t", "y">>}
    THEN Return(Infinity(sign))
    ELSE IF StartsWith(s, <<"n", "a", "n">>) /\ AllDigits(SubSeq(s, 4, Len(s)))
    THEN Return(NaN(sign, Payload(SubSeq(s, 4, Len(s)))))
    ELSE IF StartsWith(s, <<"s", "n", "a", "n">>) /\ AllDigits(SubSeq(s, 5, Len(s)))
    THEN Return(SNaN(sign, Payload(SubSeq(s, 5, Len(s)))))
    ELSE ParseNumber(sign, s)

\* the text after strip and without underscores: an optional sign, then the body
ParseSigned(s0) ==
    IF s0 # <<>> /\ s0[1] \in {"+", "-"}
    THEN ParseUnsigned(IF s0[1] = "-" THEN 1 ELSE 0, LowerText(Tail(s0)))
    ELSE ParseUnsigned(0, LowerText(s0))

\* Decimal(text) for a str
ParseDecimal(text) == ParseSigned(Remove(Strip(text), "_"))

(***************************************************************************)
(* Python values held in dicts: str, None, Decimal                         *)
(***************************************************************************)
NoDecimal == Finite(0, <<0>>, 0)
Str(text) == [ty |-> "str", s |-> text, d |-> NoDecimal]
None == [ty |-> "NoneType", s |-> <<>>, d |-> NoDecimal]
Dec(d) == [ty |-> "Decimal", s |-> <<>>, d |-> d]
\* no value at all: an element without the attribute
Absent == [ty |-> "absent", s |-> <<>>, d |-> NoDecimal]

\* True and False
PyTrue == [ty |-> "bool", s |-> <<"1">>, d |-> NoDecimal]
PyFalse == [ty |-> "bool", s |-> <<>>, d |-> NoDecimal]

\* bool(v)
Truthy(v) ==
    CASE v.ty = "str" -> v.s # <<>>
      [] v.ty = "bool" -> v.s # <<>>
      [] v.ty = "NoneType" -> FALSE
      [] v.ty = "Decimal" -> ~(v.d.kind = "finite" /\ AllZero(v.d.int))

\* str(v), as an f-string embeds it
StrOf(v) ==
    CASE v.ty = "str" -> v.s
      [] v.ty = "NoneType" -> <<"N", "o", "n", "e">>
      [] v.ty = "Decimal" -> <<"D", "e", "c", "i", "m", "a", "l">>

\* dict.get(key, default)
Get(dict, key, default) == IF key \in DOMAIN dict THEN dict[key] ELSE default

\* Decimal(v): a Decimal is kept, a str is parsed, None is a TypeError
DecimalOf(v) ==
    CASE v.ty = "Decimal" -> Return(v.d)
      [] v.ty = "str" -> ParseDecimal(v.s)
      [] v.ty = "NoneType" -> Raise("TypeError")

(***************************************************************************)
(* datetime.date                                                           *)
(***************************************************************************)
TwoDigits(n) == <<DigitChar((n \div 10) % 10), DigitChar(n % 10)>>
FourDigits(n) == TwoDigits(n \div 100) \o TwoDigits(n % 100)

IsLeap(y) == (y % 4 = 0 /\ y % 100 # 0) \/ y % 400 = 0
DaysInMonth(y, m) ==
    IF m = 2 THEN (IF IsLeap(y) THEN 29 ELSE 28)
    ELSE IF m \in {4, 6, 9, 11} THEN 30 ELSE 31

\* date.isoformat()
IsoFormat(date) ==
    FourDigits(date.year) \o <<"-">> \o TwoDigits(date.month) \o <<"-">> \o TwoDigits(date.day)

\* date.strftime("%y%m%d")
StrfYYMMDD(date) == TwoDigits(date.year % 100) \o TwoDigits(date.month) \o TwoDigits(date.day)

\* date.fromisoformat(v): YYYY-MM-DD or YYYYMMDD naming a day of the calendar
FromIsoFormat(v) ==
    IF v.ty # "str" THEN Raise("TypeError")
    ELSE LET t == v.s
             compact == IF Len(t) = 10 /\ t[5] = "-" /\ t[8] = "-"
                        THEN SubSeq(t, 1, 4) \o SubSeq(t, 6, 7) \o SubSeq(t, 9, 10)
                        ELSE t
         IN  IF Len(compact) # 8 \/ ~AllDigits(compact) THEN Raise("ValueError")
             ELSE LET y == ToInt(DigitsOf(SubSeq(compact, 1, 4)))
                      m == ToInt(DigitsOf(SubSeq(compact, 5, 6)))
                      d == ToInt(DigitsOf(SubSeq(compact, 7, 8)))
                  IN  IF y >= 1 /\ m \in 1..12 /\ d >= 1 /\ d <= DaysInMonth(y, m)
                      THEN Return([year |-> y, month |-> m, day |-> d])
                      ELSE Raise("ValueError")

\* datetime.utcnow(): a date and a time of day, to the second
\* strftime("%Y%m%d%H%M%S")
StrfCompact(now) ==
    FourDigits(now.date.year) \o TwoDigits(now.date.month) \o TwoDigits(now.date.day)
        \o TwoDigits(now.hour) \o TwoDigits(now.minute) \o TwoDigits(now.second)

\* datetime.isoformat(), to the second
IsoInstant(now) ==
    IsoFormat(now.date) \o <<"T">> \o TwoDigits(now.hour) \o <<":">> \o TwoDigits(now.minute)
        \o <<":">> \o TwoDigits(now.second)

(***************************************************************************)
(* Literals of the MT encoders                                             *)
(***************************************************************************)
\* a field tag of block 4, ":20:" from "20"
Tag(name) == <<":">> \o name \o <<":">>
\* the opening of a block, "{4:" from "4"
Block(n) == <<"{", n, ":">>
BlockEnd == <<"-", "}">>
USD == <<"U", "S", "D">>
Unknown == <<"U", "N", "K", "N", "O", "W", "N">>

(***************************************************************************)
(* swift_messages.generate_mt103                                           *)
(***************************************************************************)
\* str.upper() on the letters of a hexadecimal token
Upper(c) ==
    CASE c = "a" -> "A" [] c = "b" -> "B" [] c = "c" -> "C" [] c = "d" -> "D"
      [] c = "e" -> "E" [] c = "f" -> "F" [] OTHER -> c

\* str(uuid.uuid4()): 36 symbols, hexadecimal digits h in groups of 8-4-4-4-12
Uuid4(h) ==
    [i \in 1..36 |-> IF i \in {9, 14, 19, 24} THEN "-"
                     ELSE IF i = 15 THEN "4" ELSE IF i = 20 THEN "8" ELSE h]

\* str(uuid.uuid4()).upper()[:12]
RefOfUuid(uuid) == SubSeq([i \in 1..Len(uuid) |-> Upper(uuid[i])], 1, 12)

\* the :70: line of generate_mt103: newlines become spaces
RemittanceLine103(remittance) == Tag(<<"7", "0">>) \o Replace(remittance.s, NL, " ")

\* the value date as YYMMDD, today's when the record's does not parse
ValueDate103(payment, env) ==
    LET parsed == FromIsoFormat(Get(payment, "value_date", Str(IsoFormat(env.today))))
    IN  IF Returned(parsed) THEN StrfYYMMDD(parsed.val) ELSE StrfYYMMDD(env.today)

\* the lines from the header to :59:, given the formatted amount
Mt103Head(payment, env, amt) ==
    << Block("1") \o <<"F", "0", "1">> \o <<"SWIFTSIMULATOR", "XXXX0000000000}">>,
       Block("2") \o <<"O", "1", "0", "3", "1", "2", "0", "0">>
              \o <<"SWIFTSIMULATOR", "XXXX0000000000}">>,
       Block("4"),
       Tag(<<"2", "0">>) \o Get(payment, "reference", Str(RefOfUuid(env.uuid[1]))).s,
       Tag(<<"2", "3", "B">>) \o <<"C", "R", "E", "D">>,
       Tag(<<"3", "2", "A">>) \o ValueDate103(payment, env) \o StrOf(Get(payment, "currency", Str(USD))) \o amt,
       Tag(<<"5", "0", "K">>) \o Get(payment, "ordering_name", Str(<<>>)).s \o <<" ", "/">>
              \o Get(payment, "ordering_account", Str(<<>>)).s,
       Tag(<<"5", "9">>) \o Get(payment, "beneficiary_name", Str(<<>>)).s \o <<" ", "/">>
             \o Get(payment, "beneficiary_account", Str(<<>>)).s >>

\* the lines after :59:, given remittance = payment.get('remittance_info', '')
Mt103Tail(remittance) ==
    (IF Truthy(remittance) THEN <<RemittanceLine103(remittance)>> ELSE <<>>)
        \o << Tag(<<"7", "1", "A">>) \o <<"S", "H", "A">>, BlockEnd >>

\* generate_mt103 from line 51 on, given the outcome of format_amount
Mt103Of(payment, env, amt, remittance) ==
    IF Raised(amt) THEN amt
    ELSE IF \E k \in {"ordering_name", "ordering_account", "beneficiary_name",
                      "beneficiary_account"} : Get(payment, k, Str(<<>>)).ty # "str"
    THEN Raise("TypeError")
    ELSE IF Truthy(remittance) /\ remittance.ty # "str" THEN Raise("AttributeError")
    ELSE Return(JoinLines(Mt103Head(payment, env, amt.val) \o Mt103Tail(remittance)))

\* generate_mt103 from line 35 on, given the outcome of Decimal(payment['amount'])
Mt103For(payment, env, amount) ==
    IF Raised(amount) THEN amount
    ELSE IF Get(payment, "reference", Str(<<>>)).ty # "str" THEN Raise("TypeError")
    ELSE Mt103Of(payment, env, format_amount(amount.val, Get(payment, "currency", Str(USD))),
                 Get(payment, "remittance_info", Str(<<>>)))

\* generate_mt103 that makes up a reference of its own at every call
generate_mt103_fresh(payment, env) ==
    IF "amount" \notin DOMAIN payment THEN Raise("KeyError")
    ELSE Mt103For([k \in DOMAIN payment \ {"reference"} |-> payment[k]], env,
                  DecimalOf(payment["amount"]))

generate_mt103(payment, env) ==
    IF "amount" \notin DOMAIN payment THEN Raise("KeyError")
    ELSE Mt103For(payment, env, DecimalOf(payment["amount"]))

(***************************************************************************)
(* swift_alliance_streamlit.build_mt_message                               *)
(***************************************************************************)
\* an insertion-ordered dict of str to str: a sequence of <<key, value>> pairs
Keys(dict) == {dict[i][1] : i \in 1..Len(dict)}

\* dict[key] = value: an existing key keeps its place
DictSet(dict, key, value) ==
    IF key \in Keys(dict)
    THEN [i \in 1..Len(dict) |-> IF dict[i][1] = key THEN <<key, value>> ELSE dict[i]]
    ELSE Append(dict, <<key, value>>)

RECURSIVE DictUpdate(_, _)
\* dict.update(other)
DictUpdate(dict, other) ==
    IF other = <<>> THEN dict
    ELSE DictUpdate(DictSet(dict, other[1][1], other[1][2]), Tail(other))

\* the transaction reference always made from the type and a timestamp
MtReferenceStamped(msg_type, reference, now) ==
    SubSeq(msg_type, 1, IF Len(msg_type) < 3 THEN Len(msg_type) ELSE 3) \o StrfCompact(now)

\* the transaction reference: the caller's, or the type and a timestamp
MtReference(msg_type, reference, now) ==
    IF Truthy(reference) THEN reference.s
    ELSE SubSeq(msg_type, 1, IF Len(msg_type) < 3 THEN Len(msg_type) ELSE 3) \o StrfCompact(now)

\* for k, v in fields.items(): lines.append(f"{k}{v}")
FieldLines(fields) == [i \in 1..Len(fields) |-> fields[i][1] \o fields[i][2]]

build_mt_message(msg_type, fields, sender_info, reference, now) ==
    LET ref == MtReference(msg_type, reference, now)
        bic == StrOf(Get(sender_info, "bic", Str(Unknown)))
        head == << Block("1") \o <<"F", "0", "1">> \o bic \o <<"XXXX0000000000}">>,
                   Block("2") \o <<"O">> \o msg_type \o <<"1", "2", "0", "0">> \o bic
                          \o <<"XXXX0000000000}">>,
                   Block("4"),
                   Tag(<<"2", "0">>) \o ref >>
        trailer == << Tag(<<"8", "6">>) \o <<"Sender Details">>,
                      <<" ", "/", "BANK", "/">> \o StrOf(Get(sender_info, "bank_name", None)),
                      <<" ", "/", "ADDR", "/">> \o StrOf(Get(sender_info, "bank_address", None)),
                      <<" ", "/", "ACCTNAME", "/">> \o StrOf(Get(sender_info, "account_name", None)),
                      <<" ", "/", "ACCTIBAN", "/">> \o StrOf(Get(sender_info, "account_iban", None)),
                      BlockEnd >>
    IN  Return(JoinLines(head \o FieldLines(fields) \o trailer))

(***************************************************************************)
(* xml.etree.ElementTree and xml.dom.minidom                               *)
(*                                                                         *)
(* A tree is the sequence of its elements in creation order; an element    *)
(* names its parent by position (0 for the root).  The text an encoder     *)
(* returns is toprettyxml(parseString(tostring(tree))); it is kept as the  *)
(* same sequence of elements, each with its character data as written in   *)
(* the returned text.                                                      *)
(***************************************************************************)
FF == "\f"
Amp == <<"&", "a", "m", "p", ";">>
Lt == <<"&", "l", "t", ";">>
Gt == <<"&", "g", "t", ";">>
Quot == <<"&", "q", "u", "o", "t", ";">>

\* ET.SubElement(parent, tag).text = text
Element(tag, parent, text) == [tag |-> tag, parent |-> parent, text |-> text, attrib |-> Absent]
\* ET.SubElement(parent, tag, Ccy=value).text = text
ElementCcy(tag, parent, text, value) ==
    [tag |-> tag, parent |-> parent, text |-> text, attrib |-> value]

\* ElementTree._escape_cdata
EtEscapeCdata(text) ==
    Concat([i \in 1..Len(text) |->
        CASE text[i] = "&" -> Amp [] text[i] = "<" -> Lt [] text[i] = ">" -> Gt
          [] OTHER -> <<text[i]>>])

\* the characters the XML grammar forbids in a document
XmlInvalid == {FF}

\* expat's character data of serialized text: each reference resolved, each
\* carriage return (with a newline that follows it) read as one newline
ExpatText(raw) ==
    LET rest(i) == SubSeq(raw, i, Len(raw))
        inRef(i) == \E j \in 1..(i - 1) : raw[j] = "&" /\ \A k \in j..(i - 1) : raw[k] # ";"
        piece(i) ==
            IF raw[i] = "&" THEN
                (CASE StartsWith(rest(i), Amp) -> <<"&">>
                   [] StartsWith(rest(i), Lt) -> <<"<">>
                   [] StartsWith(rest(i), Gt) -> <<">">>
                   [] StartsWith(rest(i), Quot) -> <<"\"">>)
            ELSE IF inRef(i) THEN <<>>
            ELSE IF raw[i] = CR THEN <<NL>>
            ELSE IF raw[i] = NL /\ i > 1 /\ raw[i - 1] = CR THEN <<>>
            ELSE <<raw[i]>>
    IN  Concat([i \in 1..Len(raw) |-> piece(i)])

\* minidom._write_data
MinidomWriteData(text) ==
    Concat([i \in 1..Len(text) |->
        CASE text[i] = "&" -> Amp [] text[i] = "<" -> Lt [] text[i] = ">" -> Gt
          [] text[i] = "\"" -> Quot [] OTHER -> <<text[i]>>])

\* the character data of one str as it stands in the returned text
Written(text) == MinidomWriteData(ExpatText(EtEscapeCdata(text)))

\* ET.tostring, minidom.parseString and toprettyxml on a tree
Serialize(tree) ==
    IF \E i \in 1..Len(tree) : tree[i].text.ty = "Decimal"
                                  \/ tree[i].attrib.ty \in {"Decimal", "NoneType"}
    THEN Raise("TypeError")
    ELSE IF \E i \in 1..Len(tree) : \E c \in XmlInvalid :
                Count(tree[i].text.s, c) + Count(tree[i].attrib.s, c) > 0
    THEN Raise("ExpatError")
    ELSE Return([i \in 1..Len(tree) |->
            [tag |-> tree[i].tag, parent |-> tree[i].parent,
             text |-> Written(tree[i].text.s), attrib |-> Written(tree[i].attrib.s)]])

\* what a reader of the returned text gets as an element's text
ElementText(node) == ExpatText(node.text)

RECURSIVE PathOf(_, _)
\* the tags from the root down to element i
PathOf(doc, i) ==
    IF doc[i].parent = 0 THEN <<doc[i].tag>>
    ELSE Append(PathOf(doc, doc[i].parent), doc[i].tag)

\* the elements of a document with a given tag, in document order
WithTag(doc, tag) == {i \in 1..Len(doc) : doc[i].tag = tag}
\* the children of element i
Children(doc, i) == {j \in 1..Len(doc) : doc[j].parent = i}

(***************************************************************************)
(* swift_messages.generate_pain001                                         *)
(***************************************************************************)
Namespace == <<"urn:iso:std:iso:20022:tech:xsd:pain.001.001.03">>
One == <<"1">>
TRF == <<"T", "R", "F">>
PmtPrefix == <<"P", "M", "T", "-">>

\* the position of CdtTrfTxInf in a tree
TxInf(tree) == CHOOSE i \in 1..Len(tree) : tree[i].tag = "CdtTrfTxInf"

\* the optional CdtrAgt block appended under CdtTrfTxInf
WithCdtrAgt(payment, tree) ==
    IF Truthy(Get(payment, "beneficiary_bic", None))
    THEN tree \o << Element("CdtrAgt", TxInf(tree), None),
                    Element("FinInstnId", Len(tree) + 1, None),
                    Element("BIC", Len(tree) + 2, Get(payment, "beneficiary_bic", None)) >>
    ELSE tree

\* the debtor blocks appended before the creditor blocks
WithPartiesDebtorFirst(payment, tree) ==
    tree \o << Element("Dbtr", TxInf(tree), None),
               Element("Nm", Len(tree) + 1, Get(payment, "ordering_name", Str(<<>>))),
               Element("DbtrAcct", TxInf(tree), None),
               Element("Id", Len(tree) + 3, None),
               Element("IBAN", Len(tree) + 4, Get(payment, "ordering_account", Str(<<>>))),
               Element("Cdtr", TxInf(tree), None),
               Element("Nm", Len(tree) + 6, Get(payment, "beneficiary_name", Str(<<>>))),
               Element("CdtrAcct", TxInf(tree), None),
               Element("Id", Len(tree) + 8, None),
               Element("IBAN", Len(tree) + 9, Get(payment, "beneficiary_account", Str(<<>>))) >>

\* Cdtr, CdtrAcct, Dbtr, DbtrAcct appended under CdtTrfTxInf
WithParties(payment, tree) ==
    tree \o << Element("Cdtr", TxInf(tree), None),
               Element("Nm", Len(tree) + 1, Get(payment, "beneficiary_name", Str(<<>>))),
               Element("CdtrAcct", TxInf(tree), None),
               Element("Id", Len(tree) + 3, None),
               Element("IBAN", Len(tree) + 4, Get(payment, "beneficiary_account", Str(<<>>))),
               Element("Dbtr", TxInf(tree), None),
               Element("Nm", Len(tree) + 6, Get(payment, "ordering_name", Str(<<>>))),
               Element("DbtrAcct", TxInf(tree), None),
               Element("Id", Len(tree) + 8, None),
               Element("IBAN", Len(tree) + 9, Get(payment, "ordering_account", Str(<<>>))) >>

\* the RmtInf block appended whatever the remittance is
WithRmtInfAlways(payment, tree) ==
    tree \o << Element("RmtInf", TxInf(tree), None),
               Element("Ustrd", Len(tree) + 1, Get(payment, "remittance_info", None)) >>

\* the optional RmtInf block appended under CdtTrfTxInf
WithRmtInf(payment, tree) ==
    IF Truthy(Get(payment, "remittance_info", None))
    THEN tree \o << Element("RmtInf", TxInf(tree), None),
                    Element("Ustrd", Len(tree) + 1, Get(payment, "remittance_info", None)) >>
    ELSE tree

\* the elements from the root to InstdAmt; the three amount texts are given
HeaderBlocks(payment, env, grpSum, pmtSum, instdAmt) ==
    << Element("CstmrCdtTrfInitn", 0, None),
       Element("GrpHdr", 1, None),
       Element("MsgId", 2, Get(payment, "reference", Str(env.uuid[1]))),
       Element("CreDtTm", 2, Str(IsoInstant(env.now) \o <<"Z">>)),
       Element("NbOfTxs", 2, Str(One)),
       Element("CtrlSum", 2, Str(grpSum)),
       Element("PmtInf", 1, None),
       Element("PmtInfId", 7, Str(PmtPrefix \o StrfCompact(env.now))),
       Element("PmtMtd", 7, Str(TRF)),
       Element("NbOfTxs", 7, Str(One)),
       Element("CtrlSum", 7, Str(pmtSum)),
       Element("CdtTrfTxInf", 7, None),
       Element("PmtId", 12, None),
       Element("EndToEndId", 13, Get(payment, "reference", Str(env.uuid[2]))),
       Element("Amt", 12, None),
       ElementCcy("InstdAmt", 15, Str(instdAmt), Get(payment, "currency", Str(USD))) >>

\* generate_pain001 with the CtrlSum of PmtInf left at zero
Pain001OfZeroSum(payment, env, amt) ==
    IF Raised(amt) THEN amt
    ELSE Serialize(WithRmtInf(payment, WithParties(payment, WithCdtrAgt(payment,
                       HeaderBlocks(payment, env, amt.val, <<"0", ".", "0", "0">>, amt.val)))))

\* generate_pain001 with the three format_amount calls done: amt is their outcome
Pain001Of(payment, env, amt) ==
    IF Raised(amt) THEN amt
    ELSE Serialize(WithRmtInf(payment, WithParties(payment, WithCdtrAgt(payment,
                       HeaderBlocks(payment, env, amt.val, amt.val, amt.val)))))

\* generate_pain001 given the outcome of Decimal(payment['amount'])
Pain001For(payment, env, amount) ==
    IF Raised(amount) THEN amount
    ELSE Pain001Of(payment, env, format_amount(amount.val, Get(payment, "currency", Str(USD))))

generate_pain001(payment, env) ==
    IF "amount" \notin DOMAIN payment THEN Raise("KeyError")
    ELSE Pain001For(payment, env, DecimalOf(payment["amount"]))

(***************************************************************************)
(* swift_messages.payment_from_transaction                                 *)
(***************************************************************************)
\* x or y
Or(x, y) == IF Truthy(x) THEN x ELSE y

payment_from_transaction(account_number, account_name, beneficiary_account, beneficiary_name, amount, currency, value_date, remittance_info, beneficiary_bic, reference, env) ==
    Return([ordering_account |-> account_number,
            ordering_name |-> account_name,
            beneficiary_account |-> beneficiary_account,
            beneficiary_name |-> beneficiary_name,
            amount |-> amount,
            currency |-> currency,
            value_date |-> Or(value_date, Str(IsoFormat(env.today))),
            remittance_info |-> Or(remittance_info, Str(<<>>)),
            beneficiary_bic |-> beneficiary_bic,
            reference |-> Or(reference, Str(RefOfUuid(env.uuid[1])))])

(***************************************************************************)
(* swift_alliance_streamlit.generate_pain001_xml                           *)
(***************************************************************************)
\* generate_pain001_xml with the format_decimal calls done: amt is their outcome
Pain001XmlOf(payment, env, amt) ==
    IF Raised(amt) THEN amt
    ELSE Serialize(WithRmtInf(payment, WithParties(payment,
                       HeaderBlocks(payment, env, amt.val, amt.val, amt.val))))

generate_pain001_xml(payment, env) ==
    IF "amount" \notin DOMAIN payment THEN Raise("KeyError")
    ELSE IF payment["amount"].ty # "Decimal" THEN Raise("AttributeError")
    ELSE Pain001XmlOf(payment, env, format_decimal(payment["amount"].d))

(***************************************************************************)
(* streamlit_client.build_formal_text                                      *)
(***************************************************************************)
build_formal_text(message_type, message_body, sender_info, start_ts, end_ts, account_number, now) ==
    JoinLines(<<
        <<"INSTANT TYPE AND TRANSMISSION: INSTANT">>,
        <<>>,
        <<"MESSAGE HEADER">>,
        <<"Message Type: ">> \o message_type,
        <<"Reference: ">> \o StrfCompact(now),
        <<"Sender BIC: ">> \o StrOf(Get(sender_info, "bic", Str(<<>>))),
        <<"Sender Bank: ">> \o StrOf(Get(sender_info, "bank_name", Str(<<>>))),
        <<"Sender Address: ">> \o StrOf(Get(sender_info, "bank_address", Str(<<>>))),
        <<"Account Name: ">> \o StrOf(Get(sender_info, "account_name", Str(<<>>))),
        <<"Account IBAN: ">> \o StrOf(Get(sender_info, "account_iban", Str(<<>>))),
        <<"Selected Account: ">> \o account_number,
        <<>>,
        <<"MESSAGE TEXT">>,
        message_body,
        <<>>,
        <<"MESSAGE HAS BEEN TRANSMITTED SUCCESSFULLY">>,
        <<"CONFIRMED & RECEIVED">>,
        <<>>,
        <<"Start Time: ">> \o StrOf(start_ts),
        <<"End Time:   ">> \o StrOf(end_ts) >>)

(***************************************************************************)
(* streamlit_client.build_message_text: a closure over the widget values   *)
(***************************************************************************)
MT103 == <<"M", "T", "1", "0", "3">>

build_message_text(w, env) ==
    IF StartsWith(w.msg_type, <<"M", "T">>)
    THEN LET first == << Tag(<<"2", "0">>) \o w.reference >>
             body == IF w.msg_type = MT103
                     THEN << Tag(<<"3", "2", "A">>) \o StrfYYMMDD(env.today) \o w.currency \o w.amount,
                             Tag(<<"5", "0", "K">>) \o w.ordering_name \o <<" ", "/">> \o w.ordering_account,
                             Tag(<<"5", "9">>) \o w.beneficiary_name \o <<" ", "/">> \o w.beneficiary_account,
                             Tag(<<"7", "0">>) \o w.remittance,
                             Tag(<<"7", "1", "A">>) \o <<"S", "H", "A">> >>
                     ELSE << Tag(<<"7", "9">>) \o w.remittance >>
         IN  Return(JoinLines(first \o body))
    ELSE Return(<<"<CstmrCdtTrfInitn><GrpHdr><MsgId>">> \o w.reference
                \o <<"</MsgId></GrpHdr><PmtInf><CdtTrfTxInf><Amt><InstdAmt Ccy='">>
                \o w.currency \o <<"'>">> \o w.amount
                \o <<"</InstdAmt></Amt></CdtTrfTxInf></PmtInf></CstmrCdtTrfInitn>">>)

(***************************************************************************)
(* swift_alliance_streamlit: the script after login                        *)
(***************************************************************************)
\* the keys of MT_TEMPLATES, which the message-type selectbox offers
MT_TEMPLATES ==
    { MT103, <<"M", "T", "1", "9", "9">>, <<"M", "T", "7", "0", "0">>,
      <<"M", "T", "7", "6", "0">>, <<"M", "T", "7", "9", "9">> }

\* line.split(":", 1) of a line that holds a colon
SplitOnce(line, sep) ==
    LET i == CHOOSE k \in 1..Len(line) : line[k] = sep /\ \A j \in 1..(k - 1) : line[j] # sep
    IN  <<SubSeq(line, 1, i - 1), SubSeq(line, i + 1, Len(line))>>

\* the line boundaries of str.splitlines() among the drawn symbols; the loop
\* below skips blank lines, so one break or two at "\r\n" read the same
LineBreaks == {NL, CR, "\f"}

RECURSIVE MtFieldsOf(_, _)
\* the loop over mt_fields_raw.splitlines() that fills mt_fields
MtFieldsOf(lines, mt_fields) ==
    IF lines = <<>> THEN mt_fields
    ELSE LET line == Strip(Head(lines))
         IN  IF line = <<>> THEN MtFieldsOf(Tail(lines), mt_fields)
             ELSE IF line[1] = ":" /\ Count(Tail(line), ":") > 0
             THEN LET tag == SplitOnce(line, ":")[1]
                      val == SplitOnce(line, ":")[2]
                  IN  MtFieldsOf(Tail(lines), DictSet(mt_fields, tag \o <<":">>, Strip(val)))
             ELSE MtFieldsOf(Tail(lines), mt_fields)

ParseMtFields(mt_fields_raw) == MtFieldsOf(SplitAt(mt_fields_raw, LineBreaks), <<>>)

\* msg_type.replace("MT", "")
WithoutMT(msg_type) ==
    LET at == {i \in 1..(Len(msg_type) - 1) : msg_type[i] = "M" /\ msg_type[i + 1] = "T"}
    IN  Concat([i \in 1..Len(msg_type) |->
                   IF i \in at \/ (i - 1) \in at THEN <<>> ELSE <<msg_type[i]>>])

build_formal_output(message_type, message_body, sender_info, start_ts, end_ts, account_number, now) ==
    JoinLines(<<
        <<"INSTANT TYPE AND TRANSMISSION: INSTANT">>,
        <<>>,
        <<"MESSAGE HEADER">>,
        <<"Message Type: ">> \o message_type,
        <<"Reference: ">> \o StrfCompact(now),
        <<"Sender BIC: ">> \o StrOf(Get(sender_info, "bic", Str(<<>>))),
        <<"Sender Bank: ">> \o StrOf(Get(sender_info, "bank_name", Str(<<>>))),
        <<"Sender Address: ">> \o StrOf(Get(sender_info, "bank_address", Str(<<>>))),
        <<"Account Name: ">> \o StrOf(Get(sender_info, "account_name", Str(<<>>))),
        <<"Account IBAN: ">> \o StrOf(Get(sender_info, "account_iban", Str(<<>>))),
        <<"Selected Account (from system): ">> \o account_number,
        <<>>,
        <<"MESSAGE TEXT">>,
        message_body,
        <<>>,
        <<"MESSAGE HAS BEEN TRANSMITTED SUCCESSFULLY">>,
        <<"CONFIRMED & RECEIVED">>,
        <<>>,
        <<"Start Time: ">> \o StrOf(start_ts),
        <<"End Time:   ">> \o StrOf(end_ts) >>)

\* the sender_info dict the Compose handler builds from the widgets
SenderInfoOf(w) ==
    [bic |-> Str(w.sender_bic), bank_name |-> Str(w.sender_bank),
     bank_address |-> Str(w.sender_addr), account_name |-> Str(w.sender_acct_name),
     account_iban |-> Str(w.sender_iban)]

\* the payment dict of the Compose handler's last branch
ComposePayment(w, amount, env) ==
    [ordering_account |-> Str(w.ordering_account), ordering_name |-> Str(w.ordering_name),
     beneficiary_account |-> Str(w.beneficiary_account),
     beneficiary_name |-> Str(w.beneficiary_name),
     amount |-> Dec(amount), currency |-> Str(w.currency),
     value_date |-> Str(IsoFormat(env.today)),
     remittance_info |-> Str(w.remittance), reference |-> Str(w.reference)]

\* the fields of the MT103 branch before the overrides are merged in
Mt103Fields(w, amountText, env) ==
    << <<Tag(<<"3", "2", "A">>), StrfYYMMDD(env.today) \o w.currency \o amountText>>,
       <<Tag(<<"5", "0", "K">>), w.ordering_name \o <<" ", "/">> \o w.ordering_account>>,
       <<Tag(<<"5", "9">>), w.beneficiary_name \o <<" ", "/">> \o w.beneficiary_account>>,
       <<Tag(<<"7", "0">>), w.remittance>> >>

\* the overrides merged into the default entry
FieldsOrMerged(mt_fields, tag, remittance) == DictUpdate(<< <<tag, remittance>> >>, mt_fields)

\* mt_fields or {tag: remittance}
FieldsOr(mt_fields, tag, remittance) ==
    IF mt_fields # <<>> THEN mt_fields ELSE << <<tag, remittance>> >>

\* the MT103 branch, given the outcome of format_decimal(amount)
Mt103Branch(w, amt, env, mt_fields) ==
    IF Raised(amt) THEN amt
    ELSE build_mt_message(<<"1", "0", "3">>, DictUpdate(Mt103Fields(w, amt.val, env), mt_fields),
                          SenderInfoOf(w), Str(w.reference), env.now)

\* the last branch: an exception of generate_pain001_xml ends the run
XmlBranch(xml) == IF Raised(xml) THEN Raise("st.stop") ELSE xml

\* the type dispatch of the Compose handler, given the parsed override lines
Dispatch(w, amount, env, mt_fields) ==
    IF w.msg_type = MT103
    THEN Mt103Branch(w, format_decimal(amount), env, mt_fields)
    ELSE IF w.msg_type \in {<<"M", "T", "1", "9", "9">>, <<"M", "T", "7", "9", "9">>}
    THEN build_mt_message(WithoutMT(w.msg_type), FieldsOr(mt_fields, Tag(<<"7", "9">>), w.remittance),
                          SenderInfoOf(w), Str(w.reference), env.now)
    ELSE IF w.msg_type = <<"M", "T", "7", "0", "0">>
    THEN build_mt_message(<<"7", "0", "0">>, FieldsOr(mt_fields, Tag(<<"7", "7", "B">>), w.remittance),
                          SenderInfoOf(w), Str(w.reference), env.now)
    ELSE IF w.msg_type = <<"M", "T", "7", "6", "0">>
    THEN build_mt_message(<<"7", "6", "0">>, FieldsOr(mt_fields, Tag(<<"7", "7", "U">>), w.remittance),
                          SenderInfoOf(w), Str(w.reference), env.now)
    ELSE XmlBranch(generate_pain001_xml(ComposePayment(w, amount, env), env))

\* the message body the Compose handler builds, or the exception that ends the run
ComposeBody(w, amount, env) == Dispatch(w, amount, env, ParseMtFields(w.mt_fields_raw))

(***************************************************************************)
(* Inputs                                                                  *)
(***************************************************************************)
\* the longest coefficient of a drawn amount
MaxCoefLen == 3
\* the longest drawn remittance text of a payment record
MaxRemLen == 2

AmountDigits == {0, 1, 4, 5, 9}
AmountExps == {-4, -3, -2, -1, 0, 24, 25, 26}

\* coefficients as Decimal keeps them: no leading zero
Coefficients ==
    {c \in UNION {[1..n -> AmountDigits] : n \in 1..MaxCoefLen} : Len(c) = 1 \/ c[1] # 0}

\* 1234.5, 1234.565, 1234.005 and 1500.5
ExampleAmounts ==
    { Finite(0, <<1, 2, 3, 4, 5>>, -1), Finite(0, <<1, 2, 3, 4, 5, 6, 5>>, -3),
      Finite(0, <<1, 2, 3, 4, 0, 0, 5>>, -3), Finite(0, <<1, 5, 0, 0, 5>>, -1) }

FiniteAmounts ==
    {Finite(sg, c, e) : sg \in {0, 1}, c \in Coefficients, e \in AmountExps} \cup ExampleAmounts

CallAmounts == FiniteAmounts \cup {NaN(0, <<>>), Infinity(0), Infinity(1)}

Today == [year |-> 2026, month |-> 11, day |-> 5]
Env == [today |-> Today,
        now |-> [date |-> Today, hour |-> 19, minute |-> 5, second |-> 24],
        uuid |-> <<Uuid4("a"), Uuid4("3")>>]

\* a dict from the entries whose value is given
Dict(entries) == [k \in {key \in DOMAIN entries : entries[key].ty # "absent"} |-> entries[k]]

RemAlphabet == {"a", NL, CR, "<", FF}
PaymentRemittances ==
    {Absent, None} \cup {Str(t) : t \in UNION {[1..n -> RemAlphabet] : n \in 0..MaxRemLen}}

PaymentAmounts ==
    { Dec(Finite(0, <<1, 2, 3, 4, 5, 6, 5>>, -3)), Dec(Finite(0, <<1, 5, 0, 0, 5>>, -1)),
      Dec(NaN(0, <<>>)), Dec(Finite(0, <<1>>, 26)),
      Str(<<"1", "2", ".", "3", "4", "5">>), Str(<<"a", "b", "c">>),
      Str(<<"N", "a", "N">>), Str(<<"I", "n", "f", "i", "n", "i", "t", "y">>) }

PaymentReferences == {Absent, None, Str(<<>>), Str(<<"R", "E", "F", "0", "0", "1">>)}
PaymentDates ==
    { Absent, Str(<<"2", "0", "2", "4", "-", "0", "2", "-", "2", "9">>),
      Str(<<"2", "0", "2", "4", "-", "0", "2", "-", "3", "0">>) }
PaymentBics == {Absent, None, Str(<<"D", "E", "U", "T">>)}

BasePayment ==
    [ordering_account |-> Str(<<"C", "H", "9", "7">>),
     ordering_name |-> Str(<<"A", "N", "D", "R", "O", " ", "A", "G">>),
     beneficiary_account |-> Str(<<"D", "E", "8", "9">>),
     beneficiary_name |-> Str(<<"A", "C", "M", "E">>),
     currency |-> Str(USD),
     amount |-> Dec(Finite(0, <<1, 5, 0, 0, 5>>, -1)),
     remittance_info |-> Str(<<"a">>),
     reference |-> Str(<<"R", "E", "F", "0", "0", "1">>),
     value_date |-> Absent,
     beneficiary_bic |-> Absent]

\* payment records: every amount with a few remittances, with and without a
\* BIC; every remittance with an amount of each type; and every reference,
\* value date and BIC with two of the amounts
Payments ==
    { Dict([BasePayment EXCEPT !.amount = a, !.remittance_info = r, !.beneficiary_bic = bic]) :
        a \in PaymentAmounts, r \in {Absent, None, Str(<<>>), Str(<<"a">>)},
        bic \in {Absent, Str(<<"D", "E", "U", "T">>)} }
    \cup
    { Dict([BasePayment EXCEPT !.amount = a, !.remittance_info = r]) :
        a \in {Dec(Finite(0, <<1, 2, 3, 4, 5, 6, 5>>, -3)), Str(<<"1", "2", ".", "3", "4", "5">>)},
        r \in PaymentRemittances }
    \cup
    { Dict([BasePayment EXCEPT !.amount = a, !.remittance_info = r, !.reference = ref,
                               !.value_date = vd, !.beneficiary_bic = bic]) :
        a \in {Dec(Finite(0, <<1, 5, 0, 0, 5>>, -1)), Str(<<"a", "b", "c">>)},
        r \in {Absent, Str(<<"a">>)}, ref \in PaymentReferences,
        vd \in PaymentDates, bic \in PaymentBics }

\* the optional arguments of payment_from_transaction
TransactionDates ==
    { None, Str(<<>>), Str(<<"2", "0", "2", "4", "-", "0", "2", "-", "2", "9">>),
      Str(<<"2", "0", "2", "4", "-", "0", "2", "-", "3", "0">>),
      Str(<<"t", "o", "m", "o", "r", "r", "o", "w">>) }
TransactionReferences == {None, Str(<<>>), Str(<<"R", "E", "F", "0", "0", "1">>)}
TransactionRemittances == {None, Str(<<"a">>)}
TransactionBics == {None, Str(<<"D", "E", "U", "T">>)}

\* the calls of build_mt_message: a type of the five, and two that are not
MtCallTypes == {<<"1", "0", "3">>, <<"1", "9", "9">>, <<"9", "9", "9">>, <<"M", "T", "9", "9", "9">>}
MtCallFields ==
    { <<>>,
      << <<Tag(<<"7", "9">>), <<"a">>>> >>,
      << <<Tag(<<"7", "0">>), <<"a", NL, "-", "}">>>>, <<Tag(<<"5", "9">>), <<"X">>>> >> }
MtCallReferences == {None, Str(<<>>), Str(<<"R", "E", "F", "0", "0", "1">>)}
FullSenderInfo ==
    [bic |-> Str(<<"U", "B", "S", "W">>), bank_name |-> Str(<<"U", "B", "S">>),
     bank_address |-> Str(<<"Z", "U", "R", "I", "C", "H">>),
     account_name |-> Str(<<"A", "N", "D", "R", "O", " ", "A", "G">>),
     account_iban |-> Str(<<"C", "H", "9", "7">>)]
MtCallSenders ==
    { FullSenderInfo, Dict([FullSenderInfo EXCEPT !.bic = Absent]),
      [FullSenderInfo EXCEPT !.bic = None], [FullSenderInfo EXCEPT !.bic = Str(<<>>)],
      Dict([FullSenderInfo EXCEPT !.bank_name = Absent]) }

\* the calls of build_formal_output and build_formal_text
FormalTypes == {MT103, <<"M", "T", "7", "0", "0">>}
FormalBodies == {<<>>, <<"a">>, <<"a", NL, "b">>}
FormalStarts == {None, Str(IsoInstant(Env.now))}
FormalAccounts == {<<"-- none --">>, <<"C", "H", "9", "7">>}

\* the widget values of streamlit_client.py that build_message_text reads
ClientAmounts ==
    { <<"0", ".", "0", "0">>, <<"1", "2", "3", "4", ".", "5">>,
      <<"1", ",", "2", "3", "4", ".", "5", "0">>, <<"a", "b", "c">> }
ClientTypes == {MT103, <<"M", "T", "1", "9", "9">>, <<"ISO20022">>}
ClientWidgets ==
    { [msg_type |-> t, reference |-> <<"R", "E", "F", "0", "0", "1">>,
       currency |-> <<"C", "H", "F">>, amount |-> a,
       ordering_name |-> <<"A", "N", "D", "R", "O", " ", "A", "G">>,
       ordering_account |-> <<"C", "H", "9", "7">>,
       beneficiary_name |-> <<"A", "C", "M", "E">>,
       beneficiary_account |-> <<"D", "E", "8", "9">>,
       remittance |-> r] :
        t \in ClientTypes, a \in ClientAmounts, r \in {<<>>, <<"a">>, <<"a", NL, "b">>} }

\* the widget values of swift_alliance_streamlit.py in one session; the
\* amount text is typed anew before each click
ComposeRemittances ==
    {<<>>, <<"a">>, <<"a", NL, "b">>, <<"a", NL, "-", "}">>}
ComposeReferences == {<<>>, <<"R", "E", "F", "0", "0", "1">>}
ComposeOverrides ==
    { <<>>,
      <<":", "5", "9", ":", "X">>,
      <<":", "7", "0", ":", "Y", NL, ":", "5", "9", ":", "X">>,
      <<"n", NL, " ", ":", " ", "7", "0", ":", "Z", " ">> }
AmountTexts ==
    { <<"1", "2", "3", "4", ".", "5">>, <<" ", "1", "2", "3", "4", ".", "0", "0", "5">>,
      <<"a", "b", "c">>, <<"N", "a", "N">>, <<"I", "n", "f", "i", "n", "i", "t", "y">> }
BaseWidgets ==
    [sender_bic |-> <<"U", "B", "S", "W">>, sender_bank |-> <<"U", "B", "S">>,
     sender_addr |-> <<"Z", "U", "R", "I", "C", "H">>,
     sender_acct_name |-> <<"A", "N", "D", "R", "O", " ", "A", "G">>,
     sender_iban |-> <<"C", "H", "9", "7">>,
     selected_account |-> <<"-- none --">>,
     msg_type |-> MT103,
     ordering_name |-> <<"A", "N", "D", "R", "O", " ", "A", "G">>,
     ordering_account |-> <<"C", "H", "9", "7">>,
     beneficiary_name |-> <<"A", "C", "M", "E">>,
     beneficiary_account |-> <<"D", "E", "8", "9">>,
     amount_text |-> <<>>, currency |-> USD, remittance |-> <<"a">>,
     reference |-> <<"R", "E", "F", "0", "0", "1">>, mt_fields_raw |-> <<>>]
\* every type with every remittance, and with every override and reference
SessionWidgets ==
    { [BaseWidgets EXCEPT !.msg_type = t, !.remittance = r] :
        t \in MT_TEMPLATES, r \in ComposeRemittances }
    \cup
    { [BaseWidgets EXCEPT !.msg_type = t, !.reference = ref, !.mt_fields_raw = o] :
        t \in MT_TEMPLATES, ref \in ComposeReferences, o \in ComposeOverrides }

\* the last reading of the clock that a model run takes
MaxClock == 1

\* datetime.utcnow() at clock reading c, to the second
NowAt(c) == [date |-> Today, hour |-> 19, minute |-> 5, second |-> c]
EnvAt(c) == [today |-> Today, now |-> NowAt(c), uuid |-> Env.uuid]
\* datetime.utcnow().isoformat()
Timestamp(c) == IsoInstant(NowAt(c))

NoResults ==
    [format_amount |-> NotCalled, format_decimal |-> NotCalled,
     generate_mt103 |-> NotCalled, generate_pain001 |-> NotCalled,
     generate_pain001_xml |-> NotCalled, build_mt_message |-> NotCalled,
     build_message_text |-> NotCalled, payment_from_transaction |-> NotCalled,
     build_formal_output |-> NotCalled, build_formal_text |-> NotCalled,
     load_config |-> NotCalled, add_user |-> NotCalled]

\* a file that does not exist, a file that json.load rejects, a JSON object
MissingFile == [state |-> "missing", data |-> <<>>]
InvalidFile == [state |-> "invalid", data |-> <<>>]
JsonFile(data) == [state |-> "json", data |-> data]

\* the working directory before anything is written: no config.json, no users.json
NoFiles == [config_json |-> MissingFile, users_json |-> MissingFile]

\* no window is open
NoGui == [open |-> FALSE]

\* st.session_state of a new session: no key is set
NoSession ==
    [logged_in |-> Absent, username |-> Absent,
     message_start_ts |-> Absent, message_end_ts |-> Absent,
     preview |-> Absent, formal_text |-> Absent]

\* what a script run did: the button, what it showed, the message body it
\* built and the text it offered for download
NoRun == [button |-> "", status |-> "", amount_text |-> <<>>, body |-> NotCalled, export |-> <<>>]

(***************************************************************************)
(* Direct calls of the encoders: the arguments are drawn once, then any    *)
(* function that takes them may be called                                  *)
(***************************************************************************)
InitCall ==
    /\ entry = "call"
    /\ \/ \E a \in CallAmounts : arg = [kind |-> "amount", amount |-> a]
       \/ \E p \in Payments : arg = [kind |-> "payment", payment |-> p, env |-> Env]
       \/ \E t \in MtCallTypes, f \in MtCallFields, s \in MtCallSenders, r \in MtCallReferences :
             arg = [kind |-> "mt", msg_type |-> t, fields |-> f, sender_info |-> s,
                    reference |-> r, env |-> Env]
       \/ \E w \in ClientWidgets : arg = [kind |-> "client", widgets |-> w, env |-> Env]
       \/ \E vd \in TransactionDates, rem \in TransactionRemittances,
              bic \in TransactionBics, ref \in TransactionReferences :
             arg = [kind |-> "transaction", value_date |-> vd, remittance_info |-> rem,
                    beneficiary_bic |-> bic, reference |-> ref, env |-> Env]
       \/ \E t \in FormalTypes, b \in FormalBodies, s \in MtCallSenders,
              st \in FormalStarts, a \in FormalAccounts :
             arg = [kind |-> "formal", message_type |-> t, message_body |-> b,
                    sender_info |-> s, start_ts |-> st, end_ts |-> Str(IsoInstant(Env.now)),
                    account_number |-> a, env |-> Env]
    /\ result = NoResults
    /\ session_state = NoSession
    /\ clock = 0
    /\ run = NoRun
    /\ files = NoFiles
    /\ gui = NoGui

Call_format_amount ==
    /\ entry = "call" /\ arg.kind = "amount"
    /\ result' = [result EXCEPT !.format_amount = format_amount(arg.amount, USD)]
    /\ UNCHANGED <<entry, arg, session_state, clock, run, files, gui>>

Call_format_decimal ==
    /\ entry = "call" /\ arg.kind = "amount"
    /\ result' = [result EXCEPT !.format_decimal = format_decimal(arg.amount)]
    /\ UNCHANGED <<entry, arg, session_state, clock, run, files, gui>>

Call_generate_mt103 ==
    /\ entry = "call" /\ arg.kind = "payment"
    /\ result' = [result EXCEPT !.generate_mt103 = generate_mt103(arg.payment, arg.env)]
    /\ UNCHANGED <<entry, arg, session_state, clock, run, files, gui>>

Call_generate_pain001 ==
    /\ entry = "call" /\ arg.kind = "payment"
    /\ result' = [result EXCEPT !.generate_pain001 = generate_pain001(arg.payment, arg.env)]
    /\ UNCHANGED <<entry, arg, session_state, clock, run, files, gui>>

Call_generate_pain001_xml ==
    /\ entry = "call" /\ arg.kind = "payment"
    /\ result' = [result EXCEPT
                    !.generate_pain001_xml = generate_pain001_xml(arg.payment, arg.env)]
    /\ UNCHANGED <<entry, arg, session_state, clock, run, files, gui>>

Call_build_mt_message ==
    /\ entry = "call" /\ arg.kind = "mt"
    /\ result' = [result EXCEPT
                    !.build_mt_message = build_mt_message(arg.msg_type, arg.fields,
                                             arg.sender_info, arg.reference, arg.env.now)]
    /\ UNCHANGED <<entry, arg, session_state, clock, run, files, gui>>

Call_build_message_text ==
    /\ entry = "call" /\ arg.kind = "client"
    /\ result' = [result EXCEPT !.build_message_text = build_message_text(arg.widgets, arg.env)]
    /\ UNCHANGED <<entry, arg, session_state, clock, run, files, gui>>

Call_payment_from_transaction ==
    /\ entry = "call" /\ arg.kind = "transaction"
    /\ result' = [result EXCEPT !.payment_from_transaction =
                    payment_from_transaction(BasePayment.ordering_account,
                        BasePayment.ordering_name, BasePayment.beneficiary_account,
                        BasePayment.beneficiary_name, BasePayment.amount, BasePayment.currency,
                        arg.value_date, arg.remittance_info, arg.beneficiary_bic,
                        arg.reference, arg.env)]
    /\ UNCHANGED <<entry, arg, session_state, clock, run, files, gui>>

Call_build_formal_output ==
    /\ entry = "call" /\ arg.kind = "formal"
    /\ result' = [result EXCEPT !.build_formal_output =
                    Return(build_formal_output(arg.message_type, arg.message_body,
                        arg.sender_info, arg.start_ts, arg.end_ts, arg.account_number,
                        arg.env.now))]
    /\ UNCHANGED <<entry, arg, session_state, clock, run, files, gui>>

Call_build_formal_text ==
    /\ entry = "call" /\ arg.kind = "formal"
    /\ result' = [result EXCEPT !.build_formal_text =
                    Return(build_formal_text(arg.message_type, arg.message_body,
                        arg.sender_info, arg.start_ts, arg.end_ts, arg.account_number,
                        arg.env.now))]
    /\ UNCHANGED <<entry, arg, session_state, clock, run, files, gui>>

\* between two calls the random source moves on: the next uuid4() values differ
Reseed ==
    /\ entry = "call" /\ arg.kind = "payment"
    /\ arg' = [arg EXCEPT !.env.uuid = <<@[2], @[1]>>]
    /\ UNCHANGED <<entry, result, session_state, clock, run, files, gui>>

(***************************************************************************)
(* users.json: hash_password, and the user functions of                    *)
(* swift_alliance_streamlit.py                                             *)
(***************************************************************************)
\* hashlib.sha256((password + salt).encode()).hexdigest(): distinct
\* passwords have distinct digests
hash_password(password) == <<"sha256">> \o password \o <<"swift_alliance_app_salt_2025">>

\* data.get("users", [])
UsersOf(file) == IF file.state = "json" THEN Get(file.data, "users", <<>>) ELSE <<>>

UserEntry(username, password) == [username |-> username, password |-> hash_password(password)]

Admin == <<"a", "d", "m", "i", "n">>

\* ensure_default_user(): admin/admin when there is no users.json
ensure_default_user(file) ==
    IF file.state = "missing" THEN JsonFile([users |-> <<UserEntry(Admin, Admin)>>]) ELSE file

\* validate_user(username, password)
validate_user(file, username, password) ==
    \E i \in DOMAIN UsersOf(file) : UsersOf(file)[i] = UserEntry(username, password)

\* data.setdefault("users", []).append(entry)
\* swift_alliance_streamlit.add_user(username, password)
app_add_user(file, username, password) ==
    JsonFile([users |-> Append(UsersOf(file), UserEntry(username, password))])

(***************************************************************************)
(* Sessions of swift_alliance_streamlit.py: every click is one run of the  *)
(* script from the top.  A "compose" session has logged in as admin, a     *)
(* "login" session is new                                                  *)
(***************************************************************************)
InitSession ==
    /\ entry = "compose"
    /\ \E w \in SessionWidgets : arg = [kind |-> "session", widgets |-> w]
    /\ result = NoResults
    /\ session_state = [NoSession EXCEPT !.logged_in = PyTrue, !.username = Str(Admin)]
    /\ clock = 0
    /\ run = NoRun
    /\ files = [NoFiles EXCEPT !.users_json = ensure_default_user(MissingFile)]
    /\ gui = NoGui

\* the users already registered when a new session opens
StoredUsers == {MissingFile, JsonFile([users |-> <<UserEntry(Admin, Admin), UserEntry(<<"b", "o", "b">>, <<"p", "w">>)>>])}

InitLogin ==
    /\ entry = "login"
    /\ arg = [kind |-> "session", widgets |-> BaseWidgets, input_uname |-> <<>>, input_pwd |-> <<>>]
    /\ result = NoResults
    /\ session_state = NoSession
    /\ clock = 0
    /\ run = NoRun
    /\ \E f \in StoredUsers : files = [NoFiles EXCEPT !.users_json = f]
    /\ gui = NoGui

Session == entry \in {"compose", "login"}

\* the top of the script, run every time: ensure_default_user()
ScriptTop(fs) == [fs EXCEPT !.users_json = ensure_default_user(@)]

\* the login keys are created
LoginKeys(ss) ==
    [ss EXCEPT !.logged_in = IF @.ty = "absent" THEN PyFalse ELSE @,
               !.username = IF @.ty = "absent" THEN Str(<<>>) ELSE @]

\* if not st.session_state["logged_in"]: ... st.stop()
PastGateOpen(ss) == TRUE
PastGate(ss) == Truthy(LoginKeys(ss).logged_in)

\* st.session_state.get(key)
SessionGet(ss, key) == IF ss[key].ty = "absent" THEN None ELSE ss[key]

\* every run that gets past the login gate: the timestamp keys are created
ScriptPrelude(ss) ==
    [LoginKeys(ss) EXCEPT !.message_start_ts = SessionGet(ss, "message_start_ts"),
                          !.message_end_ts = SessionGet(ss, "message_end_ts")]

\* what is typed into the login form
LoginNames == {<<>>, Admin, <<"b", "o", "b">>}
LoginPasswords == {<<>>, Admin, <<"p", "w">>, <<"x">>}

\* the session after a successful login or registration
LoggedIn(ss, username) == [LoginKeys(ss) EXCEPT !.username = Str(username), !.logged_in = PyTrue]

\* a run has shown the login form: its buttons can be clicked
LoginFormShown == entry = "login" /\ session_state.logged_in = PyFalse

\* if st.button("Login"):
LoginClick ==
    /\ LoginFormShown
    /\ \E input_uname \in LoginNames, input_pwd \in LoginPasswords :
          /\ arg' = [arg EXCEPT !.input_uname = input_uname, !.input_pwd = input_pwd]
          /\ IF validate_user(ScriptTop(files).users_json, input_uname, input_pwd)
             THEN /\ session_state' = LoggedIn(session_state, input_uname)
                  /\ run' = [NoRun EXCEPT !.button = "login", !.status = "Login successful"]
             ELSE /\ session_state' = LoginKeys(session_state)
                  /\ run' = [NoRun EXCEPT !.button = "login", !.status = "Invalid credentials"]
    /\ files' = ScriptTop(files)
    /\ UNCHANGED <<entry, result, clock, gui>>

\* if st.button("Register"):
RegisterClick ==
    /\ LoginFormShown
    /\ \E input_uname \in LoginNames, input_pwd \in LoginPasswords :
          /\ arg' = [arg EXCEPT !.input_uname = input_uname, !.input_pwd = input_pwd]
          /\ IF input_uname = <<>> \/ input_pwd = <<>>
             THEN /\ session_state' = LoginKeys(session_state)
                  /\ run' = [NoRun EXCEPT !.button = "register",
                                          !.status = "Enter username and password"]
                  /\ files' = ScriptTop(files)
             ELSE /\ session_state' = LoggedIn(session_state, input_uname)
                  /\ run' = [NoRun EXCEPT !.button = "register",
                                          !.status = "User created and logged in"]
                  /\ files' = [files EXCEPT !.users_json =
                                  app_add_user(ensure_default_user(@), input_uname, input_pwd)]
    /\ UNCHANGED <<entry, result, clock, gui>>

\* a run with no button pressed (a widget was edited, or a rerun was asked for)
Rerun ==
    /\ Session
    /\ session_state' = IF PastGate(session_state) THEN ScriptPrelude(session_state)
                        ELSE LoginKeys(session_state)
    /\ run' = NoRun
    /\ files' = ScriptTop(files)
    /\ UNCHANGED <<entry, arg, result, clock, gui>>

\* if start_btn:
StartClick ==
    /\ Session /\ PastGate(session_state)
    /\ session_state' = [ScriptPrelude(session_state) EXCEPT
                            !.message_start_ts = Str(Timestamp(clock))]
    /\ run' = [NoRun EXCEPT !.button = "start", !.status = "Boot sequence complete"]
    /\ files' = ScriptTop(files)
    /\ UNCHANGED <<entry, arg, result, clock, gui>>

\* if not st.session_state.get("message_start_ts"): set it
ComposeStart(ss, ts) ==
    IF ~Truthy(SessionGet(ss, "message_start_ts"))
    THEN [ss EXCEPT !.message_start_ts = Str(ts)]
    ELSE ss

\* the formal text kept under both keys
ComposedOnce(ss, formal_text) ==
    [ss EXCEPT !.preview = Str(formal_text),
               !.formal_text = IF Truthy(SessionGet(ss, "formal_text")) THEN @
                               ELSE Str(formal_text)]
Composed(ss, formal_text) ==
    [ss EXCEPT !.preview = Str(formal_text), !.formal_text = Str(formal_text)]

\* the handler after the dispatch: the end timestamp, the formal text, the keys
ComposeEnd(w, ss, body, this) ==
    IF Raised(body)
    THEN /\ session_state' = ss
         /\ run' = [this EXCEPT !.status = "exception", !.body = body]
    ELSE /\ session_state' =
                Composed([ss EXCEPT !.message_end_ts = Str(Timestamp(clock))],
                         build_formal_output(w.msg_type, body.val, SenderInfoOf(w),
                             ss.message_start_ts, Str(Timestamp(clock)),
                             w.selected_account, NowAt(clock)))
         /\ run' = [this EXCEPT !.status = "Formal Output Preview", !.body = body]

\* the handler after the amount is parsed
ComposeRun(w, ss, amount, this) ==
    IF Raised(amount)
    THEN /\ session_state' = ss
         /\ run' = [this EXCEPT !.status = "Invalid amount"]
    ELSE ComposeEnd(w, ss, ComposeBody(w, amount.val, EnvAt(clock)), this)

\* if compose_btn:
ComposeClick ==
    /\ Session /\ PastGate(session_state)
    /\ \E amount_text \in AmountTexts :
          ComposeRun([arg.widgets EXCEPT !.amount_text = amount_text],
                     ComposeStart(ScriptPrelude(session_state), Timestamp(clock)),
                     ParseDecimal(Strip(amount_text)),
                     [NoRun EXCEPT !.button = "compose", !.amount_text = amount_text])
    /\ files' = ScriptTop(files)
    /\ UNCHANGED <<entry, arg, result, clock, gui>>

\* formal_text or preview
ExportText(ss) ==
    IF Truthy(SessionGet(ss, "formal_text")) THEN SessionGet(ss, "formal_text")
    ELSE SessionGet(ss, "preview")

\* if download_pdf_btn: generate_pdf_bytes may raise (no reportlab)
DownloadPdfClick ==
    /\ Session /\ PastGate(session_state)
    /\ LET ss0 == ScriptPrelude(session_state)
           this == [NoRun EXCEPT !.button = "pdf"]
       IN  IF ~Truthy(ExportText(ss0))
           THEN /\ session_state' = ss0
                /\ run' = [this EXCEPT !.status = "Generate/compose the message first"]
           ELSE /\ session_state' = [ss0 EXCEPT !.message_end_ts = Str(Timestamp(clock))]
                /\ \/ run' = [this EXCEPT !.status = "PDF generated",
                                          !.export = ExportText(ss0).s]
                   \/ run' = [this EXCEPT !.status = "PDF generation failed"]
    /\ files' = ScriptTop(files)
    /\ UNCHANGED <<entry, arg, result, clock, gui>>

\* if download_txt_btn:
DownloadTxtClick ==
    /\ Session /\ PastGate(session_state)
    /\ LET ss0 == ScriptPrelude(session_state)
           this == [NoRun EXCEPT !.button = "txt"]
       IN  IF ~Truthy(ExportText(ss0))
           THEN /\ session_state' = ss0
                /\ run' = [this EXCEPT !.status = "Generate/compose the message first"]
           ELSE /\ session_state' = [ss0 EXCEPT !.message_end_ts = Str(Timestamp(clock))]
                /\ run' = [this EXCEPT !.status = "TXT prepared for download",
                                       !.export = ExportText(ss0).s]
    /\ files' = ScriptTop(files)
    /\ UNCHANGED <<entry, arg, result, clock, gui>>

\* time passes between two runs
Tick ==
    /\ Session \/ entry = "client"
    /\ clock < MaxClock
    /\ clock' = clock + 1
    /\ UNCHANGED <<entry, arg, result, session_state, run, files, gui>>

(***************************************************************************)
(* Sessions of streamlit_client.py, in demo mode and against a server.     *)
(* run.status is the status line a run shows                               *)
(***************************************************************************)
\* st.session_state of a new session
NoClientSession ==
    [auth_token |-> Absent, username |-> Absent, last_message_id |-> Absent,
     last_message_body |-> Absent, last_formal |-> Absent, last_status |-> Absent]

\* the longest run of submissions in one session
MaxMessages == 2

\* the ids a submission can get, the tokens and states a server can answer
MessageIds == {<<"demo-", "0", "1">>, <<"demo-", "0", "2">>}
ServerTokens == {None, Str(<<"j", "w", "t">>)}
ServerStates == {None, Str(<<"QUEUED">>), Str(<<"SENT">>)}

InitClient ==
    /\ entry = "client"
    /\ \E demo \in BOOLEAN :
          arg = [kind |-> "client_session", DEMO_MODE |-> demo, submitted |-> 0,
                 widgets |-> [msg_type |-> MT103, reference |-> BaseWidgets.reference,
                              currency |-> USD, amount |-> <<"1">>,
                              ordering_name |-> BaseWidgets.ordering_name,
                              ordering_account |-> BaseWidgets.ordering_account,
                              beneficiary_name |-> BaseWidgets.beneficiary_name,
                              beneficiary_account |-> BaseWidgets.beneficiary_account,
                              remittance |-> <<"a">>]]
    /\ result = NoResults
    /\ session_state = NoClientSession
    /\ clock = 0
    /\ run = NoRun
    /\ files = NoFiles
    /\ gui = NoGui

\* the login keys are created
ClientKeys(ss) ==
    [ss EXCEPT !.auth_token = IF @.ty = "absent" THEN None ELSE @,
               !.username = IF @.ty = "absent" THEN Str(<<>>) ELSE @]

\* if not st.session_state["auth_token"]: ... st.stop()
ClientPastGate(ss) == Truthy(ClientKeys(ss).auth_token)

\* st.session_state.get("last_status", "UNKNOWN"), written under the message id
StatusShown(ss) ==
    IF ~Truthy(SessionGet(ss, "last_message_id")) THEN ""
    ELSE IF ss.last_status.ty = "absent" THEN "UNKNOWN"
    ELSE IF ss.last_status.ty = "NoneType" THEN "None"
    ELSE ss.last_status.s[1]

\* auth_login(username, password): the tokens it can return
auth_login(demo, username) ==
    IF demo THEN {Str(<<"demo-token-">> \o username)} ELSE ServerTokens

\* a run with no button pressed
ClientRerun ==
    /\ entry = "client"
    /\ session_state' = ClientKeys(session_state)
    /\ run' = [NoRun EXCEPT !.status = IF ClientPastGate(session_state)
                                      THEN StatusShown(session_state) ELSE ""]
    /\ UNCHANGED <<entry, arg, result, clock, files, gui>>

\* if st.button("Login"):
ClientLoginClick ==
    /\ entry = "client"
    /\ session_state.auth_token.ty # "absent" /\ ~ClientPastGate(session_state)
    /\ \E token \in auth_login(arg.DEMO_MODE, Admin) :
          session_state' = IF Truthy(token)
                           THEN [session_state EXCEPT !.auth_token = token,
                                                      !.username = Str(Admin)]
                           ELSE session_state
    /\ run' = [NoRun EXCEPT !.button = "login"]
    /\ UNCHANGED <<entry, arg, result, clock, files, gui>>

\* the demo flow of Compose & Submit
SubmitDemo(ss, mid, message_body, ts) ==
    [ss EXCEPT !.last_message_id = Str(mid),
               !.last_message_body = Str(message_body),
               !.last_formal = Str(build_formal_text(arg.widgets.msg_type, message_body,
                                       FullSenderInfo, Str(ts), Str(ts), <<>>,
                                       NowAt(clock)))]

\* if st.button("Compose & Submit"): then the status section of the same run
ClientSubmitClick ==
    /\ entry = "client" /\ ClientPastGate(session_state)
    /\ arg.submitted < MaxMessages
    /\ arg' = [arg EXCEPT !.submitted = @ + 1]
    /\ \/ \E mid \in MessageIds :
             session_state' =
                IF arg.DEMO_MODE
                THEN SubmitDemo(session_state, mid,
                                build_message_text(arg.widgets, EnvAt(clock)).val,
                                Timestamp(clock))
                ELSE [session_state EXCEPT !.last_message_id = Str(mid)]
       \/ ~arg.DEMO_MODE /\ session_state' = session_state
    /\ run' = [NoRun EXCEPT !.button = "submit", !.status = StatusShown(session_state')]
    /\ UNCHANGED <<entry, result, clock, files, gui>>

\* if st.button("Refresh Status"):
ClientRefreshClick ==
    /\ entry = "client" /\ ClientPastGate(session_state)
    /\ Truthy(SessionGet(session_state, "last_message_id"))
    /\ \/ \E state \in ServerStates :
             session_state' =
                [session_state EXCEPT !.last_status =
                    IF arg.DEMO_MODE THEN Str(<<"SENT">>) ELSE state]
       \/ ~arg.DEMO_MODE /\ session_state' = session_state
    /\ run' = [NoRun EXCEPT !.button = "refresh", !.status = StatusShown(session_state')]
    /\ UNCHANGED <<entry, arg, result, clock, files, gui>>

\* if st.button("Download TXT"): the stored text in demo mode, else what the
\* server sends or nothing
ClientDownloadClick ==
    /\ entry = "client" /\ ClientPastGate(session_state)
    /\ Truthy(SessionGet(session_state, "last_message_id"))
    /\ \E sent \in {<<>>, <<"<server bytes>">>} :
          run' = [NoRun EXCEPT
                     !.button = "txt", !.status = StatusShown(session_state),
                     !.export = IF ~arg.DEMO_MODE THEN sent
                                ELSE IF Truthy(SessionGet(session_state, "last_formal"))
                                THEN session_state.last_formal.s
                                ELSE SessionGet(session_state, "last_message_body").s]
    /\ UNCHANGED <<entry, arg, result, session_state, clock, files, gui>>

(***************************************************************************)
(* add_user.py: the command-line tool that edits users.json                *)
(***************************************************************************)
\* load_users(): no users when the file is missing or cannot be read
load_users(file) == IF file.state = "json" THEN file.data ELSE [users |-> <<>>]

\* user_exists(data, username)
user_exists(data, username) ==
    \E i \in DOMAIN Get(data, "users", <<>>) : Get(data, "users", <<>>)[i].username = username

\* [u for u in data.get("users", []) if u.get("username") != username]
RECURSIVE OtherUsers(_, _)
OtherUsers(users, username) ==
    IF users = <<>> THEN <<>>
    ELSE IF Head(users).username # username
    THEN <<Head(users)>> \o OtherUsers(Tail(users), username)
    ELSE OtherUsers(Tail(users), username)

\* add_user(username, password): the exit code and the file afterwards
add_user_unchecked(file, username, password) ==
    [code |-> 0,
     file |-> JsonFile([load_users(file) EXCEPT !.users =
                           Append(@, UserEntry(username, password))])]
add_user(file, username, password) ==
    IF user_exists(load_users(file), username) THEN [code |-> 1, file |-> file]
    ELSE [code |-> 0,
          file |-> JsonFile([load_users(file) EXCEPT !.users =
                                Append(@, UserEntry(username, password))])]

\* overwrite_user(username, password)
overwrite_user(file, username, password) ==
    [code |-> 0,
     file |-> JsonFile([load_users(file) EXCEPT !.users =
                           Append(OtherUsers(@, username), UserEntry(username, password))])]

\* the users.json files the tool is run on, and its arguments
ToolFiles ==
    {MissingFile, InvalidFile, JsonFile([users |-> <<>>]),
     JsonFile([users |-> <<UserEntry(Admin, Admin)>>]),
     JsonFile([users |-> <<UserEntry(<<"b", "o", "b">>, <<"p", "w">>), UserEntry(Admin, Admin)>>])}
ToolNames == {Admin, <<"b", "o", "b">>, <<"e", "v", "e">>}
ToolPasswords == {<<"p", "w">>, <<"x">>}

InitTool ==
    /\ entry = "add_user"
    /\ arg = [kind |-> "add_user", username |-> <<>>, password |-> <<>>]
    /\ result = NoResults
    /\ session_state = NoSession
    /\ clock = 0
    /\ run = NoRun
    /\ \E f \in ToolFiles : files = [NoFiles EXCEPT !.users_json = f]
    /\ gui = NoGui

\* python add_user.py --username u --password p
Call_add_user ==
    /\ entry = "add_user"
    /\ \E username \in ToolNames, password \in ToolPasswords :
          /\ arg' = [arg EXCEPT !.username = username, !.password = password]
          /\ result' = [result EXCEPT !.add_user =
                           Return(add_user(files.users_json, username, password).code)]
          /\ files' = [files EXCEPT !.users_json = add_user(@, username, password).file]
    /\ run' = [NoRun EXCEPT !.button = "add_user"]
    /\ UNCHANGED <<entry, session_state, clock, gui>>

\* python add_user.py --username u --password p --force
Call_overwrite_user ==
    /\ entry = "add_user"
    /\ \E username \in ToolNames, password \in ToolPasswords :
          /\ arg' = [arg EXCEPT !.username = username, !.password = password]
          /\ result' = [result EXCEPT !.add_user =
                           Return(overwrite_user(files.users_json, username, password).code)]
          /\ files' = [files EXCEPT !.users_json = overwrite_user(@, username, password).file]
    /\ run' = [NoRun EXCEPT !.button = "overwrite_user"]
    /\ UNCHANGED <<entry, session_state, clock, gui>>

(***************************************************************************)
(* config_manager.py: the settings file config.json                        *)
(***************************************************************************)
ConfigKeys == {"schema_path", "logo_path"}

\* _default_config()
default_config == [k \in ConfigKeys |-> None]

\* cfg = _default_config(); cfg.update({k: data.get(k, cfg[k]) for k in cfg.keys()})
ConfigFrom(data) == [k \in ConfigKeys |-> Get(data, k, default_config[k])]

\* load_config(): the defaults when the file is missing or cannot be read
load_config(file) == IF file.state = "json" THEN ConfigFrom(file.data) ELSE default_config

\* save_config(data): what json.dump writes
save_config(data) == JsonFile(ConfigFrom(data))

\* the paths the apps store, and the dictionaries built from them
ConfigValues == {None, Str(<<"x", "s", "d">>), Str(<<"p", "n", "g">>)}
ConfigDicts == UNION {[D -> ConfigValues] : D \in SUBSET (ConfigKeys \cup {"theme"})}

InitConfig ==
    /\ entry = "config"
    /\ arg = [kind |-> "config", data |-> <<>>]
    /\ result = NoResults
    /\ session_state = NoSession
    /\ clock = 0
    /\ run = NoRun
    /\ \E f \in {MissingFile, InvalidFile} \cup {JsonFile(d) : d \in ConfigDicts} :
          files = [NoFiles EXCEPT !.config_json = f]
    /\ gui = NoGui

Call_load_config ==
    /\ entry = "config"
    /\ result' = [result EXCEPT !.load_config = Return(load_config(files.config_json))]
    /\ run' = [NoRun EXCEPT !.button = "load_config"]
    /\ UNCHANGED <<entry, arg, session_state, clock, files, gui>>

Call_save_config ==
    /\ entry = "config"
    /\ \E data \in ConfigDicts :
          /\ arg' = [arg EXCEPT !.data = data]
          /\ files' = [files EXCEPT !.config_json = save_config(data)]
    /\ run' = [NoRun EXCEPT !.button = "save_config"]
    /\ UNCHANGED <<entry, result, session_state, clock, gui>>

(***************************************************************************)
(* swift_alliance_gui.py: the SwiftGUI window.  The validators are         *)
(* imported from a module outside this repository's sources: a call of one *)
(* yields any of the outcomes its callers handle                           *)
(***************************************************************************)
\* SwiftGUI.__init__: the ISO 20022 radio button is checked; validated is
\* the text the last validation ran on
NewGui ==
    [open |-> TRUE, schema_path |-> None, last_validation_result |-> [valid |-> FALSE],
     preview |-> <<>>, fmt |-> 1, validated |-> <<>>]

\* _set_validation_result(valid, errors), for a result computed on content
set_validation_result(g, valid, content) ==
    [g EXCEPT !.last_validation_result = [valid |-> valid], !.validated = content]

\* validate_mt103_text(content) -> (valid, issues)
Mt103Verdicts == {"valid", "invalid"}
\* validate_pain001_generated(content, schema_path) -> (valid, errors), or raises
Pain001Verdicts == {"valid", "invalid", "SchemaNotFoundError"}

\* _collect_payment(): the form holds the account of the bank's first customer
collect_payment(amount_text) ==
    IF Raised(ParseDecimal(Strip(amount_text))) THEN Raise("ValueError")
    ELSE payment_from_transaction(BasePayment.ordering_account, BasePayment.ordering_name,
             BasePayment.beneficiary_account, BasePayment.beneficiary_name,
             Dec(ParseDecimal(Strip(amount_text)).val), Or(Str(<<>>), Str(USD)),
             Or(Str(<<>>), None), Or(BasePayment.remittance_info, None),
             Or(Str(<<>>), None), Or(BasePayment.reference, None), Env)

\* on_generate, MT103 selected: the preview is set, then validated
GenerateMt103(g, mt, verdict) ==
    IF Raised(mt) THEN g
    ELSE set_validation_result([g EXCEPT !.preview = mt.val], verdict = "valid", mt.val)

\* on_generate, ISO 20022 selected: the preview is set, then validated when
\* a schema is selected; an exception of the validator ends the handler
GeneratePain001(g, xml, verdict) ==
    IF Raised(xml) THEN g
    ELSE IF ~Truthy(g.schema_path)
    THEN set_validation_result([g EXCEPT !.preview = xml.val], FALSE, xml.val)
    ELSE IF verdict = "SchemaNotFoundError" THEN [g EXCEPT !.preview = xml.val]
    ELSE set_validation_result([g EXCEPT !.preview = xml.val], verdict = "valid", xml.val)

\* on_generate: every exception ends in an error box
on_generate(g, payment, verdict) ==
    IF Raised(payment) THEN g
    ELSE IF g.fmt = 0 THEN GenerateMt103(g, generate_mt103(payment.val, Env), verdict)
    ELSE GeneratePain001(g, generate_pain001(payment.val, Env), verdict)

\* on_validate_clicked
on_validate_clicked(g, verdict) ==
    IF g.preview = <<>> THEN g
    ELSE IF g.fmt = 0 THEN set_validation_result(g, verdict = "valid", g.preview)
    ELSE IF ~Truthy(g.schema_path) \/ verdict = "SchemaNotFoundError" THEN g
    ELSE set_validation_result(g, verdict = "valid", g.preview)

\* on_send up to the choice of the send method: what the user is shown
on_send(g) ==
    IF g.preview = <<>> THEN "Nothing to send"
    ELSE IF ~g.last_validation_result.valid THEN "Validation failed"
    ELSE "Send message"

\* select_schema_file
select_schema_file(g, fname) == IF fname # <<>> THEN [g EXCEPT !.schema_path = Str(fname)] ELSE g

\* the amounts typed into the form
GuiAmountTexts == {<<"1">>, <<"2", ".", "5">>, <<"x">>}

InitGui ==
    /\ entry = "gui"
    /\ arg = [kind |-> "gui"]
    /\ result = NoResults
    /\ session_state = NoSession
    /\ clock = 0
    /\ run = NoRun
    /\ files = NoFiles
    /\ gui = NewGui

GuiGenerate ==
    /\ entry = "gui"
    /\ \E amount_text \in GuiAmountTexts, verdict \in Mt103Verdicts \cup Pain001Verdicts :
          /\ gui.fmt = 0 => verdict \in Mt103Verdicts
          /\ gui' = on_generate(gui, collect_payment(amount_text), verdict)
    /\ run' = [NoRun EXCEPT !.button = "generate"]
    /\ UNCHANGED <<entry, arg, result, session_state, clock, files>>

GuiValidate ==
    /\ entry = "gui"
    /\ \E verdict \in Mt103Verdicts \cup Pain001Verdicts :
          /\ gui.fmt = 0 => verdict \in Mt103Verdicts
          /\ gui' = on_validate_clicked(gui, verdict)
    /\ run' = [NoRun EXCEPT !.button = "validate"]
    /\ UNCHANGED <<entry, arg, result, session_state, clock, files>>

GuiSend ==
    /\ entry = "gui"
    /\ run' = [NoRun EXCEPT !.button = "send", !.status = on_send(gui)]
    /\ UNCHANGED <<entry, arg, result, session_state, clock, files, gui>>

\* a radio button of the format group is clicked
GuiSelectFormat ==
    /\ entry = "gui"
    /\ \E fmt \in {0, 1} : gui' = [gui EXCEPT !.fmt = fmt]
    /\ run' = [NoRun EXCEPT !.button = "format"]
    /\ UNCHANGED <<entry, arg, result, session_state, clock, files>>

GuiSelectSchema ==
    /\ entry = "gui"
    /\ \E fname \in {<<>>, <<"x", "s", "d">>} : gui' = select_schema_file(gui, fname)
    /\ run' = [NoRun EXCEPT !.button = "schema"]
    /\ UNCHANGED <<entry, arg, result, session_state, clock, files>>

Init == InitCall \/ InitSession \/ InitLogin \/ InitClient \/ InitTool \/ InitConfig \/ InitGui

Next ==
    \/ Call_format_amount
    \/ Call_format_decimal
    \/ Call_generate_mt103
    \/ Call_generate_pain001
    \/ Call_generate_pain001_xml
    \/ Call_build_mt_message
    \/ Call_build_message_text
    \/ Call_payment_from_transaction
    \/ Call_build_formal_output
    \/ Call_build_formal_text
    \/ Reseed
    \/ LoginClick
    \/ RegisterClick
    \/ Rerun
    \/ StartClick
    \/ ComposeClick
    \/ DownloadPdfClick
    \/ DownloadTxtClick
    \/ Tick
    \/ ClientRerun
    \/ ClientLoginClick
    \/ ClientSubmitClick
    \/ ClientRefreshClick
    \/ ClientDownloadClick
    \/ Call_add_user
    \/ Call_overwrite_user
    \/ Call_load_config
    \/ Call_save_config
    \/ GuiGenerate
    \/ GuiValidate
    \/ GuiSend
    \/ GuiSelectFormat
    \/ GuiSelectSchema

Spec == Init /\ [][Next]_vars

(***************************************************************************)
(* Properties                                                              *)
(***************************************************************************)
RECURSIVE IntToDigits(_)
IntToDigits(n) == IF n < 10 THEN <<n>> ELSE Append(IntToDigits(n \div 10), n % 10)

RECURSIVE Pow10(_)
Pow10(k) == IF k <= 0 THEN 1 ELSE 10 * Pow10(k - 1)

\* |a| in hundredths, rounded half-up (a tie goes away from zero), as digits
HalfUpCents(a) ==
    IF AllZero(a.int) THEN <<0>>
    ELSE IF a.exp >= -2 THEN a.int \o Zeros(a.exp + 2)
    ELSE LET p == Pow10(-2 - a.exp)
         IN  IntToDigits((2 * ToInt(a.int) + p) \div (2 * p))

\* a sign, the hundredths as integer digits, a point and two digits
TwoPlaces(sign, cents) ==
    LET d == IF Len(cents) < 3 THEN Zeros(3 - Len(cents)) \o cents ELSE cents
    IN  (IF sign = 1 THEN <<"-">> ELSE <<>>)
            \o CharsOf(SubSeq(d, 1, Len(d) - 2)) \o <<".">> \o CharsOf(SubSeq(d, Len(d) - 1, Len(d)))

\* digits, one point, exactly two digits after it; at most a leading minus
IsTwoPlaceText(text) ==
    LET body == IF text # <<>> /\ text[1] = "-" THEN Tail(text) ELSE text
    IN  /\ Len(body) >= 4
        /\ body[Len(body) - 2] = "."
        /\ \A i \in 1..Len(body) : i # Len(body) - 2 => IsDigitChar(body[i])

\* the rounded amount has no more digits than the decimal context holds
FitsPrecision(a) == Len(HalfUpCents(a)) <= DecimalPrec

FormatterResults == {result.format_amount, result.format_decimal}
FormatsFinite == entry = "call" /\ arg.kind = "amount" /\ arg.amount.kind = "finite"

\* C1 (as amended): for every finite amount whose half-up rounding to two
\* places has at most 28 digits, format_amount and format_decimal return the
\* same text, the half-up rounded amount with one point and exactly two digits
\* after it; for a larger amount both raise InvalidOperation.
C1_FormatHalfUp ==
    FormatsFinite =>
        /\ \A r \in FormatterResults : r # NotCalled =>
              IF FitsPrecision(arg.amount)
              THEN /\ Returned(r)
                   /\ r.val = TwoPlaces(arg.amount.sign, HalfUpCents(arg.amount))
                   /\ IsTwoPlaceText(r.val)
              ELSE r.exc = "InvalidOperation"
        /\ (result.format_amount # NotCalled /\ result.format_decimal # NotCalled)
              => result.format_amount = result.format_decimal

\* 1234.005, a tie at the third digit, came out of both formatters as 1234.01
C1_Witness ==
    /\ FormatsFinite
    /\ arg.amount = Finite(0, <<1, 2, 3, 4, 0, 0, 5>>, -3)
    /\ result.format_amount.val = <<"1", "2", "3", "4", ".", "0", "1">>
    /\ result.format_decimal.val = <<"1", "2", "3", "4", ".", "0", "1">>

\* C1 as stated: every finite amount is formatted
C1_Original ==
    FormatsFinite =>
        \A r \in FormatterResults : r # NotCalled =>
            Returned(r) /\ r.val = TwoPlaces(arg.amount.sign, HalfUpCents(arg.amount))

(***************************************************************************)
(* What a state holds of the generators' outputs                           *)
(***************************************************************************)
CalledWith(kind) == entry = "call" /\ arg.kind = kind
ComposeRan == entry = "compose" /\ run.button = "compose"
\* the Compose handler ran for MT103 and built a message body
Composed103 == ComposeRan /\ arg.widgets.msg_type = MT103 /\ Returned(run.body)

\* the MT messages returned in this state
MtTexts ==
    {r.val : r \in {x \in {result.generate_mt103, result.build_mt_message} : Returned(x)}}
        \cup (IF ComposeRan /\ Returned(run.body) THEN {run.body.val} ELSE {})

\* the lines of a message that start with a tag
TagLines(text, tag) == {i \in 1..Len(Lines(text)) : StartsWith(Lines(text)[i], tag)}

\* the text after the date (6 symbols) and the currency (3) of a :32A: line
AmountOf32A(line) == SubSeq(line, Len(Tag(<<"3", "2", "A">>)) + 10, Len(line))

\* the amount texts of the :32A: lines of a message
AmountsIn(text) == {AmountOf32A(Lines(text)[i]) : i \in TagLines(text, Tag(<<"3", "2", "A">>))}

\* the texts of the elements of a document with a tag
TextsOf(doc, tag) == {doc[i].text : i \in WithTag(doc, tag)}

\* the content of InstdAmt in the one-line fragment of build_message_text
FragmentAmount(text) ==
    SubSeq(text, 1 + (CHOOSE k \in 1..Len(text) : text[k] = "'>"), Len(text) - 1)

\* Decimal(v) is a finite number
IsFinite(v) == Returned(DecimalOf(v)) /\ DecimalOf(v).val.kind = "finite"

\* C2: in every message of every generator, for an amount that is a finite
\* number, the amount embedded in the :32A: line or in InstdAmt has one point,
\* exactly two digits after it and no separator.
C2_AmountTwoDigits ==
    /\ (CalledWith("payment") /\ IsFinite(arg.payment["amount"])) =>
          /\ \A r \in {result.generate_pain001, result.generate_pain001_xml} :
                Returned(r) => \A t \in TextsOf(r.val, "InstdAmt") : IsTwoPlaceText(t)
          /\ Returned(result.generate_mt103) =>
                \A a \in AmountsIn(result.generate_mt103.val) : IsTwoPlaceText(a)
    /\ (Composed103 /\ IsFinite(Str(run.amount_text))) =>
          \A a \in AmountsIn(run.body.val) : IsTwoPlaceText(a)
    /\ (CalledWith("client") /\ IsFinite(Str(arg.widgets.amount))
            /\ Returned(result.build_message_text)) =>
          IF arg.widgets.msg_type = <<"ISO20022">>
          THEN IsTwoPlaceText(FragmentAmount(result.build_message_text.val))
          ELSE \A a \in AmountsIn(result.build_message_text.val) : IsTwoPlaceText(a)

XmlResults == {result.generate_pain001, result.generate_pain001_xml}

\* the text format_amount is to give: two places half-up; NaN stays NaN
ExpectedAmount(a) ==
    IF a.kind = "finite" THEN TwoPlaces(a.sign, HalfUpCents(a)) ELSE <<"N", "a", "N">>

\* C3: in the XML of generate_pain001 and generate_pain001_xml there are two
\* CtrlSum elements, one in GrpHdr and one in PmtInf, and one InstdAmt; all
\* three carry the same text, the amount formatted to two places.
C3_CtrlSumIsInstdAmt ==
    CalledWith("payment") =>
        \A r \in XmlResults : Returned(r) =>
            /\ Cardinality(WithTag(r.val, "InstdAmt")) = 1
            /\ {r.val[r.val[i].parent].tag : i \in WithTag(r.val, "CtrlSum")} = {"GrpHdr", "PmtInf"}
            /\ Cardinality(WithTag(r.val, "CtrlSum")) = 2
            /\ TextsOf(r.val, "CtrlSum") = TextsOf(r.val, "InstdAmt")
            /\ TextsOf(r.val, "InstdAmt") = {ExpectedAmount(DecimalOf(arg.payment["amount"]).val)}

\* both encoders wrote 1234.57 for the amount 1234.565, in CtrlSum and InstdAmt
C3_Witness ==
    /\ CalledWith("payment")
    /\ arg.payment["amount"] = Dec(Finite(0, <<1, 2, 3, 4, 5, 6, 5>>, -3))
    /\ \A r \in XmlResults :
          /\ Returned(r)
          /\ TextsOf(r.val, "CtrlSum") = {<<"1", "2", "3", "4", ".", "5", "7">>}
          /\ TextsOf(r.val, "InstdAmt") = {<<"1", "2", "3", "4", ".", "5", "7">>}

\* the MT messages of generate_mt103 and of the Compose handler in this state
EncodedMtTexts ==
    (IF Returned(result.generate_mt103) THEN {result.generate_mt103.val} ELSE {})
        \cup (IF ComposeRan /\ Returned(run.body) THEN {run.body.val} ELSE {})

\* C4: every MT message of the Compose handler and of generate_mt103 starts
\* with the '{1:' line, the '{2:' line and '{4:', ends with '-}', and has no
\* other line that is '{4:' or '-}' or starts with '{1:' or '{2:'.
C4_EnvelopeOnce ==
    \A t \in EncodedMtTexts :
        LET ls == Lines(t)
        IN  /\ Len(ls) >= 4
            /\ StartsWith(ls[1], Block("1")) /\ StartsWith(ls[2], Block("2"))
            /\ ls[3] = Block("4") /\ ls[Len(ls)] = BlockEnd
            /\ \A i \in 1..Len(ls) :
                  /\ StartsWith(ls[i], Block("1")) => i = 1
                  /\ StartsWith(ls[i], Block("2")) => i = 2
                  /\ ls[i] = Block("4") => i = 3
                  /\ ls[i] = BlockEnd => i = Len(ls)

\* the six default lines of an MT103 body
Mt103Defaults(vd, currency, amount, oname, oacct, bname, bacct, remittance) ==
    << Tag(<<"2", "3", "B">>) \o <<"C", "R", "E", "D">>,
       Tag(<<"3", "2", "A">>) \o vd \o currency \o amount,
       Tag(<<"5", "0", "K">>) \o oname \o <<" ", "/">> \o oacct,
       Tag(<<"5", "9">>) \o bname \o <<" ", "/">> \o bacct,
       Tag(<<"7", "0">>) \o remittance,
       Tag(<<"7", "1", "A">>) \o <<"S", "H", "A">> >>

\* the value date of a payment record as YYMMDD, today's when it has none
RecordDate(payment) ==
    IF Returned(FromIsoFormat(Get(payment, "value_date", None)))
    THEN StrfYYMMDD(FromIsoFormat(Get(payment, "value_date", None)).val)
    ELSE StrfYYMMDD(Today)

\* C5: an MT103 with no overrides and a one-line remittance has, right after
\* the ':20:' line, the lines :23B:CRED, :32A:, :50K:, :59:, :70:, :71A:SHA in
\* that order, from generate_mt103 and from the Compose handler alike.
C5_Mt103Body ==
    /\ (CalledWith("payment") /\ Returned(result.generate_mt103)
            /\ Truthy(Get(arg.payment, "remittance_info", None))
            /\ Count(arg.payment["remittance_info"].s, NL) = 0) =>
          SubSeq(Lines(result.generate_mt103.val), 5, 10) =
              Mt103Defaults(RecordDate(arg.payment), arg.payment["currency"].s,
                  ExpectedAmount(DecimalOf(arg.payment["amount"]).val),
                  arg.payment["ordering_name"].s, arg.payment["ordering_account"].s,
                  arg.payment["beneficiary_name"].s, arg.payment["beneficiary_account"].s,
                  arg.payment["remittance_info"].s)
    /\ (Composed103 /\ arg.widgets.mt_fields_raw = <<>>
            /\ arg.widgets.remittance # <<>> /\ Count(arg.widgets.remittance, NL) = 0) =>
          SubSeq(Lines(run.body.val), 5, 10) =
              Mt103Defaults(StrfYYMMDD(Today), arg.widgets.currency,
                  ExpectedAmount(ParseDecimal(run.amount_text).val),
                  arg.widgets.ordering_name, arg.widgets.ordering_account,
                  arg.widgets.beneficiary_name, arg.widgets.beneficiary_account,
                  arg.widgets.remittance)

\* C6: with an empty remittance (and no override) no line of the MT103 starts
\* with ':70:', from generate_mt103 and from the Compose handler alike.
C6_NoEmptyRemittanceLine ==
    /\ (CalledWith("payment") /\ Returned(result.generate_mt103)
            /\ Get(arg.payment, "remittance_info", Str(<<>>)) = Str(<<>>)) =>
          TagLines(result.generate_mt103.val, Tag(<<"7", "0">>)) = {}
    /\ (Composed103 /\ arg.widgets.mt_fields_raw = <<>> /\ arg.widgets.remittance = <<>>) =>
          TagLines(run.body.val, Tag(<<"7", "0">>)) = {}

\* the remittance of the payment record passed to the encoders
Remittance == Get(arg.payment, "remittance_info", None)

\* a text with each carriage return, and the newline after it, read as one newline
LineEndsAsNewline(text) ==
    Concat([i \in 1..Len(text) |->
        IF text[i] = CR THEN <<NL>>
        ELSE IF text[i] = NL /\ i > 1 /\ text[i - 1] = CR THEN <<>>
        ELSE <<text[i]>>])

\* the RmtInf elements directly under CdtTrfTxInf
RmtInfOf(doc) == {i \in Children(doc, TxInf(doc)) : doc[i].tag = "RmtInf"}

\* a document has one RmtInf under CdtTrfTxInf holding one Ustrd that reads as
\* text when the remittance is a non-empty string, and neither element otherwise
RmtInfCarries(doc, remittance, text) ==
    IF Truthy(remittance)
    THEN /\ WithTag(doc, "RmtInf") = RmtInfOf(doc) /\ Cardinality(RmtInfOf(doc)) = 1
         /\ \A i \in RmtInfOf(doc) : \E u \in WithTag(doc, "Ustrd") :
               /\ Children(doc, i) = {u} /\ WithTag(doc, "Ustrd") = {u}
               /\ ElementText(doc[u]) = text
    ELSE WithTag(doc, "RmtInf") = {} /\ WithTag(doc, "Ustrd") = {}

TypePrefix(msg_type) == SubSeq(msg_type, 1, IF Len(msg_type) < 3 THEN Len(msg_type) ELSE 3)

C9_UnsupportedType ==
    (CalledWith("mt") /\ arg.fields = <<>> /\ result.build_mt_message # NotCalled
        /\ arg.msg_type \notin {<<"1", "0", "3">>, <<"1", "9", "9">>, <<"7", "0", "0">>,
                                <<"7", "6", "0">>, <<"7", "9", "9">>}
        /\ arg.msg_type \notin MT_TEMPLATES) =>
       result.build_mt_message = Raise("UnsupportedMessageType")

\* C10: for an amount text that is no finite decimal, generate_mt103 and
\* generate_pain001 fail and return no text, and a Compose run reports an
\* invalid amount and stops before it builds a message or a formal text.
C10_InvalidAmountFails ==
    /\ (CalledWith("payment") /\ arg.payment["amount"].ty = "str"
            /\ ~IsFinite(arg.payment["amount"])) =>
          \A r \in {result.generate_mt103, result.generate_pain001} :
              r # NotCalled => Raised(r)
    /\ (ComposeRan /\ ~IsFinite(Str(Strip(run.amount_text)))) =>
          run.status = "Invalid amount" /\ run.body = NotCalled

\* C11: in every document of generate_pain001 and generate_pain001_xml,
\* GrpHdr/MsgId and CdtTrfTxInf/PmtId/EndToEndId carry one and the same
\* identifier, also when the payment record has no 'reference' key.
C11_OneIdentifier ==
    CalledWith("payment") =>
        \A r \in XmlResults : Returned(r) =>
            /\ \A i \in WithTag(r.val, "MsgId") : r.val[r.val[i].parent].tag = "GrpHdr"
            /\ \A i \in WithTag(r.val, "EndToEndId") : r.val[r.val[i].parent].tag = "PmtId"
            /\ Cardinality(WithTag(r.val, "MsgId")) = 1
            /\ Cardinality(WithTag(r.val, "EndToEndId")) = 1
            /\ TextsOf(r.val, "MsgId") = TextsOf(r.val, "EndToEndId")

\* a text of exactly 12 characters, none of them a lower-case letter
IsShortUpper(t) == Len(t) = 12 /\ \A i \in 1..Len(t) : Upper(t[i]) = t[i]

\* a reference is the caller's when that is a non-empty string, else synthesized
IsReferenceFor(used, supplied) ==
    IF Truthy(supplied) THEN used = supplied.s ELSE IsShortUpper(used)

\* the record of the direct call is one on which only the reference can matter
PlainPayment ==
    /\ CalledWith("payment")
    /\ arg.payment["amount"] = Dec(Finite(0, <<1, 5, 0, 0, 5>>, -1))
    /\ "value_date" \notin DOMAIN arg.payment /\ "beneficiary_bic" \notin DOMAIN arg.payment

\* C12: with no reference supplied (key absent, None or empty string) each of
\* payment_from_transaction, generate_mt103 and generate_pain001 completes and
\* uses a synthesized reference of exactly 12 upper-case characters; a
\* non-empty supplied reference is used unchanged.
C12_SynthesizedReference ==
    /\ (CalledWith("transaction") /\ result.payment_from_transaction.exc # "<not called>") =>
          /\ Returned(result.payment_from_transaction)
          /\ result.payment_from_transaction.val.reference.ty = "str"
          /\ IsReferenceFor(result.payment_from_transaction.val.reference.s, arg.reference)
    /\ (PlainPayment /\ result.generate_mt103 # NotCalled) =>
          /\ Returned(result.generate_mt103)
          /\ IsReferenceFor(SubSeq(Lines(result.generate_mt103.val)[4], 5,
                                   Len(Lines(result.generate_mt103.val)[4])),
                            Get(arg.payment, "reference", None))
    /\ (PlainPayment /\ result.generate_pain001 # NotCalled) =>
          /\ Returned(result.generate_pain001)
          /\ \A used \in TextsOf(result.generate_pain001.val, "MsgId")
                           \cup TextsOf(result.generate_pain001.val, "EndToEndId") :
                IsReferenceFor(used, Get(arg.payment, "reference", None))

\* C13: the record of payment_from_transaction has the supplied value_date
\* when that is a valid calendar date, and the generation date when it is
\* absent, empty or no valid calendar date.
C13_ValueDateOrToday ==
    (CalledWith("transaction") /\ Returned(result.payment_from_transaction)) =>
        result.payment_from_transaction.val.value_date =
            IF Returned(FromIsoFormat(arg.value_date)) THEN arg.value_date
            ELSE Str(IsoFormat(Today))

\* the default free-text tag of a message type other than MT103
DefaultTag(msg_type) ==
    CASE msg_type = <<"M", "T", "7", "0", "0">> -> Tag(<<"7", "7", "B">>)
      [] msg_type = <<"M", "T", "7", "6", "0">> -> Tag(<<"7", "7", "U">>)
      [] OTHER -> Tag(<<"7", "9">>)

\* the Compose handler built a message of a type other than MT103
ComposedOther == ComposeRan /\ Returned(run.body) /\ arg.widgets.msg_type # MT103

\* the lines of a message between the ':20:' line and the six lines of the
\* ':86:' trailer and the end of the block
FieldPart(text) == SubSeq(Lines(text), 5, Len(Lines(text)) - 6)

\* the override map of the session, as tag and value texts
Overrides == ParseMtFields(arg.widgets.mt_fields_raw)

\* C14: for MT199, MT799, MT700 and MT760 in the Compose handler, a non-empty
\* override map gives exactly its entries between ':20:' and the ':86:'
\* trailer and no default entry; an empty one gives exactly the type's
\* default tag followed by the remittance text.
C14_OverridesReplaceDefault ==
    ComposedOther =>
        /\ StartsWith(Lines(run.body.val)[4], Tag(<<"2", "0">>))
        /\ Lines(run.body.val)[Len(Lines(run.body.val)) - 5] = Tag(<<"8", "6">>) \o <<"Sender Details">>
        /\ IF Overrides # <<>>
           THEN FieldPart(run.body.val) = [i \in 1..Len(Overrides) |-> Overrides[i][1] \o Overrides[i][2]]
           ELSE FieldPart(run.body.val) = Lines(DefaultTag(arg.widgets.msg_type) \o arg.widgets.remittance)

\* a message of type MT700 was composed from one override line and has that
\* line alone between the reference and the trailer, without the default tag
C14_Witness ==
    /\ ComposedOther /\ arg.widgets.msg_type = <<"M", "T", "7", "0", "0">>
    /\ arg.widgets.mt_fields_raw = <<":", "5", "9", ":", "X">>
    /\ FieldPart(run.body.val) = << <<":", "5", "9", ":", "X">> >>
    /\ TagLines(run.body.val, Tag(<<"7", "7", "B">>)) = {}

\* the override lines the user entered that are tag lines: stripped, starting
\* with ':' and holding a second ':'
IsTagLine(line) == line # <<>> /\ line[1] = ":" /\ Count(Tail(line), ":") > 0
EnteredTagLines ==
    SelectSeq([i \in 1..Len(SplitAt(arg.widgets.mt_fields_raw, LineBreaks)) |->
                  Strip(SplitAt(arg.widgets.mt_fields_raw, LineBreaks)[i])], IsTagLine)

\* the tag of a tag line, colons included, and the line with the tag and the
\* value set together without blanks around them
TagOf(line) == <<":">> \o SplitOnce(Tail(line), ":")[1] \o <<":">>
AsEmitted(line) == <<":">> \o Strip(Tail(line))

\* the default entries of the MT103 branch of the Compose handler
Defaults103 ==
    << Tag(<<"3", "2", "A">>) \o StrfYYMMDD(Today) \o arg.widgets.currency
           \o ExpectedAmount(ParseDecimal(Strip(run.amount_text)).val),
       Tag(<<"5", "0", "K">>) \o arg.widgets.ordering_name \o <<" ", "/">>
           \o arg.widgets.ordering_account,
       Tag(<<"5", "9">>) \o arg.widgets.beneficiary_name \o <<" ", "/">>
           \o arg.widgets.beneficiary_account,
       Tag(<<"7", "0">>) \o arg.widgets.remittance >>

\* C15: for MT103 in the Compose flow an override line for a tag that has a
\* default gives exactly one line starting with that tag, carrying the
\* caller's value, and every default without an override is kept.
C15_Mt103OverridesMerge ==
    (Composed103 /\ Count(arg.widgets.remittance, NL) = 0) =>
        \A d \in 1..4 :
            LET tag == TagOf(Defaults103[d])
                entered == {i \in 1..Len(EnteredTagLines) : TagOf(EnteredTagLines[i]) = tag}
                found == TagLines(run.body.val, tag)
            IN  /\ Cardinality(found) = 1
                /\ \A k \in found :
                      IF entered = {} THEN Lines(run.body.val)[k] = Defaults103[d]
                      ELSE \E i \in entered :
                              /\ \A j \in entered : j <= i
                              /\ Lines(run.body.val)[k] = AsEmitted(EnteredTagLines[i])

\* the lines of block 4 of a message: after '{4:' and before the closing line
Block4(text) == SubSeq(Lines(text), 4, Len(Lines(text)) - 1)

\* C16: in the Compose flow every entered override tag line is a line of
\* block 4 of the composed message, and lines with distinct tags appear in
\* the order in which they were entered.
C16_OverrideLinesKept ==
    (ComposeRan /\ Returned(run.body)) =>
        /\ \A i \in 1..Len(EnteredTagLines) :
              \E k \in 1..Len(Block4(run.body.val)) :
                  Block4(run.body.val)[k] = AsEmitted(EnteredTagLines[i])
        /\ \A i, j \in 1..Len(EnteredTagLines) :
              (i < j /\ TagOf(EnteredTagLines[i]) # TagOf(EnteredTagLines[j])) =>
                  \E k, l \in 1..Len(Block4(run.body.val)) :
                      /\ k < l
                      /\ Block4(run.body.val)[k] = AsEmitted(EnteredTagLines[i])
                      /\ Block4(run.body.val)[l] = AsEmitted(EnteredTagLines[j])

\* the last six lines of a text
LastSix(text) == SubSeq(Lines(text), Len(Lines(text)) - 5, Len(Lines(text)))

\* the sender-details trailer and the closing line
TrailerOf(bank, addr, name, iban) ==
    << Tag(<<"8", "6">>) \o <<"Sender Details">>,
       <<" ", "/", "BANK", "/">> \o bank, <<" ", "/", "ADDR", "/">> \o addr,
       <<" ", "/", "ACCTNAME", "/">> \o name, <<" ", "/", "ACCTIBAN", "/">> \o iban,
       BlockEnd >>

\* the last six lines of a text are a sender-details trailer, whatever the
\* details, and the closing line
EndsWithTrailer(text) ==
    /\ Len(Lines(text)) >= 6
    /\ \A i \in 1..6 : StartsWith(LastSix(text)[i], TrailerOf(<<>>, <<>>, <<>>, <<>>)[i])

\* C17: every MT message of build_mt_message (called directly with full
\* sender details, or by the Compose handler) and of generate_mt103 has,
\* right before the closing '-}', the lines ':86:Sender Details', ' /BANK/',
\* ' /ADDR/', ' /ACCTNAME/' and ' /ACCTIBAN/' with the sender's details.
C17_SenderTrailer ==
    /\ (CalledWith("mt") /\ Returned(result.build_mt_message)
            /\ DOMAIN arg.sender_info = DOMAIN FullSenderInfo) =>
          LastSix(result.build_mt_message.val) =
              TrailerOf(arg.sender_info["bank_name"].s, arg.sender_info["bank_address"].s,
                        arg.sender_info["account_name"].s, arg.sender_info["account_iban"].s)
    /\ (ComposeRan /\ Returned(run.body)) =>
          LastSix(run.body.val) =
              TrailerOf(arg.widgets.sender_bank, arg.widgets.sender_addr,
                        arg.widgets.sender_acct_name, arg.widgets.sender_iban)
    /\ (CalledWith("payment") /\ Returned(result.generate_mt103)) =>
          EndsWithTrailer(result.generate_mt103.val)

\* the tags of the children of element i, in document order
ChildTags(doc, i) ==
    LET at == SelectSeq([j \in 1..Len(doc) |-> j], LAMBDA j : doc[j].parent = i)
    IN  [k \in 1..Len(at) |-> doc[at[k]].tag]

\* the order the blocks of CdtTrfTxInf are to have
TxInfOrder ==
    <<"PmtId", "Amt", "CdtrAgt", "Cdtr", "CdtrAcct", "Dbtr", "DbtrAcct", "RmtInf">>

\* a sequence of tags is TxInfOrder with some tags left out
InTxInfOrder(tags) ==
    tags = SelectSeq(TxInfOrder, LAMBDA t : \E k \in 1..Len(tags) : tags[k] = t)

\* C18: every document of generate_pain001 and generate_pain001_xml has root
\* CstmrCdtTrfInitn with children GrpHdr, PmtInf; GrpHdr with MsgId, CreDtTm,
\* NbOfTxs, CtrlSum; PmtInf with PmtInfId, PmtMtd, NbOfTxs, CtrlSum,
\* CdtTrfTxInf; the children of CdtTrfTxInf in the order PmtId, Amt, CdtrAgt,
\* Cdtr, CdtrAcct, Dbtr, DbtrAcct, RmtInf; one GrpHdr, one CdtTrfTxInf, both
\* NbOfTxs '1' and PmtMtd 'TRF'.
C18_FixedShape ==
    CalledWith("payment") =>
        \A r \in XmlResults : Returned(r) =>
            /\ {i \in 1..Len(r.val) : r.val[i].parent = 0} = {1}
            /\ r.val[1].tag = "CstmrCdtTrfInitn"
            /\ ChildTags(r.val, 1) = <<"GrpHdr", "PmtInf">>
            /\ Cardinality(WithTag(r.val, "GrpHdr")) = 1
            /\ Cardinality(WithTag(r.val, "CdtTrfTxInf")) = 1
            /\ \A g \in WithTag(r.val, "GrpHdr") :
                  ChildTags(r.val, g) = <<"MsgId", "CreDtTm", "NbOfTxs", "CtrlSum">>
            /\ \A q \in WithTag(r.val, "PmtInf") :
                  ChildTags(r.val, q) = <<"PmtInfId", "PmtMtd", "NbOfTxs", "CtrlSum", "CdtTrfTxInf">>
            /\ \A t \in WithTag(r.val, "CdtTrfTxInf") : InTxInfOrder(ChildTags(r.val, t))
            /\ Cardinality(WithTag(r.val, "NbOfTxs")) = 2
            /\ TextsOf(r.val, "NbOfTxs") = {<<"1">>}
            /\ TextsOf(r.val, "PmtMtd") = {<<"T", "R", "F">>}

\* generate_pain001 returned a document with all eight blocks under CdtTrfTxInf
C18_Witness ==
    /\ CalledWith("payment") /\ Returned(result.generate_pain001)
    /\ ChildTags(result.generate_pain001.val, TxInf(result.generate_pain001.val)) = TxInfOrder
    /\ Returned(result.generate_pain001_xml)

\* the BIC texts found under CdtTrfTxInf/CdtrAgt/FinInstnId of a document
CreditorAgentBics(doc) ==
    {ElementText(doc[b]) : b \in {i \in WithTag(doc, "BIC") :
        /\ doc[doc[i].parent].tag = "FinInstnId"
        /\ doc[doc[doc[i].parent].parent].tag = "CdtrAgt"
        /\ doc[doc[doc[i].parent].parent].parent = TxInf(doc)}}

\* C19: in the XML of generate_pain001 and of generate_pain001_xml,
\* CdtTrfTxInf holds CdtrAgt/FinInstnId/BIC exactly when beneficiary_bic is a
\* non-empty string, and its text is that BIC.
C19_CreditorAgentIffBic ==
    CalledWith("payment") =>
        \A r \in XmlResults : Returned(r) =>
            CreditorAgentBics(r.val) =
                IF Truthy(Get(arg.payment, "beneficiary_bic", None))
                THEN {arg.payment["beneficiary_bic"].s} ELSE {}

\* C20: the remittance is embedded in the MT text on one line, each newline
\* replaced by a space, by generate_mt103 (':70:') and by the Compose handler
\* (':70:', ':79:', ':77B:', ':77U:'), so the number of lines between the
\* reference and the end does not depend on the remittance content.
C20_RemittanceOneLine ==
    /\ (CalledWith("payment") /\ Returned(result.generate_mt103) /\ Truthy(Remittance)) =>
          /\ Len(Lines(result.generate_mt103.val)) = 11
          /\ Lines(result.generate_mt103.val)[9] =
                Tag(<<"7", "0">>) \o Replace(Remittance.s, NL, " ")
    /\ (ComposeRan /\ Returned(run.body) /\ arg.widgets.mt_fields_raw = <<>>) =>
          IF arg.widgets.msg_type = MT103
          THEN /\ Len(FieldPart(run.body.val)) = 4
               /\ FieldPart(run.body.val)[4] =
                     Tag(<<"7", "0">>) \o Replace(arg.widgets.remittance, NL, " ")
          ELSE FieldPart(run.body.val) =
                  << DefaultTag(arg.widgets.msg_type) \o Replace(arg.widgets.remittance, NL, " ") >>

\* the two envelope header lines for a type and a BIC
HeaderLines(type, bic) ==
    << Block("1") \o <<"F", "0", "1">> \o bic \o <<"XXXX0000000000}">>,
       Block("2") \o <<"O">> \o type \o <<"1", "2", "0", "0">> \o bic \o <<"XXXX0000000000}">> >>

\* C21: the first two lines of every MT message are '{1:F01' B 'XXXX0000000000}'
\* and '{2:O' type '1200' B 'XXXX0000000000}' with one and the same B: the
\* sender BIC when the sender info has one, a fixed placeholder when the BIC
\* is absent (key missing, None or empty string).
C21_EnvelopeBic ==
    /\ (CalledWith("mt") /\ Returned(result.build_mt_message)) =>
          SubSeq(Lines(result.build_mt_message.val), 1, 2) =
              HeaderLines(arg.msg_type,
                  IF Truthy(Get(arg.sender_info, "bic", None))
                  THEN arg.sender_info["bic"].s ELSE Unknown)
    /\ (ComposeRan /\ Returned(run.body)) =>
          SubSeq(Lines(run.body.val), 1, 2) =
              HeaderLines(WithoutMT(arg.widgets.msg_type), arg.widgets.sender_bic)
    /\ (CalledWith("payment") /\ Returned(result.generate_mt103)) =>
          SubSeq(Lines(result.generate_mt103.val), 1, 2) =
              HeaderLines(<<"1", "0", "3">>, <<"SWIFTSIMULATOR">>)

\* the lines a formal output is to have
FormalLines(message_type, message_body, sender_info, start_ts, end_ts, account_label, now) ==
    << <<"INSTANT TYPE AND TRANSMISSION: INSTANT">>, <<>>, <<"MESSAGE HEADER">>,
       <<"Message Type: ">> \o message_type, <<"Reference: ">> \o StrfCompact(now) >>
    \o [i \in 1..5 |->
          << <<"Sender BIC: ">>, <<"Sender Bank: ">>, <<"Sender Address: ">>,
             <<"Account Name: ">>, <<"Account IBAN: ">> >>[i]
          \o StrOf(Get(sender_info,
                 <<"bic", "bank_name", "bank_address", "account_name", "account_iban">>[i],
                 Str(<<>>)))]
    \o << account_label, <<>>, <<"MESSAGE TEXT">> >>
    \o Lines(message_body)
    \o << <<>>, <<"MESSAGE HAS BEEN TRANSMITTED SUCCESSFULLY">>, <<"CONFIRMED & RECEIVED">>,
          <<>>, <<"Start Time: ">> \o StrOf(start_ts), <<"End Time:   ">> \o StrOf(end_ts) >>

\* C22: for identical arguments and the same clock reading build_formal_output
\* and build_formal_text give the identical sequence of lines: banner, blank,
\* header, the eight header lines, blank, 'MESSAGE TEXT', the body, blank, the
\* two confirmation lines, blank, the start and the end time.
C22_FormalTextsAgree ==
    (CalledWith("formal") /\ Returned(result.build_formal_output)
        /\ Returned(result.build_formal_text)) =>
       /\ Lines(result.build_formal_output.val) = Lines(result.build_formal_text.val)
       /\ Lines(result.build_formal_output.val) =
              FormalLines(arg.message_type, arg.message_body, arg.sender_info, arg.start_ts,
                          arg.end_ts, Lines(result.build_formal_output.val)[11], arg.env.now)

\* the arguments of a direct call: all but the clock and the random source
InputsOf(a) == [k \in DOMAIN a \ {"env"} |-> a[k]]

\* an encoder already returned for the arguments of this state, the reference
\* being supplied where the encoder takes one from the payment record
AlreadyEncoded(f) ==
    /\ entry = "call" /\ result[f].exc = ""
    /\ f \in {"generate_mt103", "generate_pain001"} => "reference" \in DOMAIN arg.payment

\* C23: an encoder called again with the same arguments, the same supplied
\* reference and the same clock reading returns the text it returned before,
\* whatever was called in between, and no call changes the arguments.
C23_CallsIndependent ==
    [][ /\ entry = "call" => InputsOf(arg') = InputsOf(arg)
        /\ (entry = "call" /\ "env" \in DOMAIN arg) => arg'.env.now = arg.env.now
        /\ \A f \in {"generate_mt103", "generate_pain001", "build_mt_message",
                     "build_formal_output"} :
              AlreadyEncoded(f) => result'[f] = result[f] ]_vars

\* generate_mt103 and generate_pain001 have both returned for a payment record
\* with a supplied reference, after the random source moved on
C23_Witness ==
    /\ CalledWith("payment") /\ "reference" \in DOMAIN arg.payment
    /\ Returned(result.generate_mt103) /\ Returned(result.generate_pain001)
    /\ arg.env.uuid # Env.uuid

\* C24: load_config() always returns a dictionary with exactly the keys
\* schema_path and logo_path (both None when config.json is missing or
\* invalid); after save_config(data) it returns data[k] for every key data
\* provides and, for a key data leaves out, the value stored before the save
C24_SaveKeepsOtherKeys ==
    [][ entry = "config" =>
          /\ DOMAIN load_config(files'.config_json) = ConfigKeys
          /\ files'.config_json.state # "json" =>
                \A k \in ConfigKeys : load_config(files'.config_json)[k] = None
          /\ run'.button = "save_config" =>
                \A k \in ConfigKeys :
                   load_config(files'.config_json)[k] =
                      IF k \in DOMAIN arg'.data THEN arg'.data[k]
                      ELSE load_config(files.config_json)[k] ]_vars

\* C25: in the SwiftGUI window on_send goes on to the send dialog without
\* the 'Message is not valid ... override and continue?' question only when
\* the last validation result is valid and was computed for the text that is
\* in the preview: a result left over from an earlier preview (as when the
\* validator raises after the preview was replaced) never lets a preview
\* that was not validated go out unasked
C25_SendNeedsFreshValidation ==
    (entry = "gui" /\ run.button = "send" /\ run.status = "Send message") =>
        /\ gui.last_validation_result.valid
        /\ gui.validated = gui.preview

\* C26: a session of swift_alliance_streamlit.py becomes logged in under a
\* username u only if the password typed matches a hash stored for u in
\* users.json before the click, or u had no entry before the click (a new
\* registration); a Register click with the name of an existing user neither
\* logs the session in as u nor makes a second password valid for u
C26_LoginNeedsCredentials ==
    [][ (entry = "login" /\ ~PastGate(session_state)) =>
          /\ PastGate(session_state') =>
                /\ session_state'.username = Str(arg'.input_uname)
                /\ \/ validate_user(files.users_json, arg'.input_uname, arg'.input_pwd)
                   \/ ~user_exists(load_users(files.users_json), arg'.input_uname)
          /\ (/\ run'.button = "register"
              /\ user_exists(load_users(files.users_json), arg'.input_uname)) =>
                /\ ~PastGate(session_state')
                /\ \A q \in LoginPasswords :
                      validate_user(files'.users_json, arg'.input_uname, q)
                         = validate_user(files.users_json, arg'.input_uname, q) ]_vars

Users == UsersOf(files.users_json)

\* the entries of the other users, in order
Others(file, username) == OtherUsers(UsersOf(file), username)

\* C27: for add_user.py, starting from a users.json whose entries have
\* pairwise-distinct usernames, the file holds at most one entry per
\* username after any sequence of add_user and overwrite_user calls;
\* add_user on an existing username returns 1 and leaves the file unchanged,
\* on a new username it appends exactly one entry and returns 0;
\* overwrite_user leaves exactly one entry for that username, carrying the
\* new hash, and every other user's entry unchanged
C27_OneEntryPerUser ==
    [][ entry = "add_user" =>
          /\ \A i, j \in DOMAIN UsersOf(files'.users_json) :
                UsersOf(files'.users_json)[i].username = UsersOf(files'.users_json)[j].username
                   => i = j
          /\ run'.button = "add_user" =>
                IF user_exists(load_users(files.users_json), arg'.username)
                THEN result'.add_user = Return(1) /\ files' = files
                ELSE /\ result'.add_user = Return(0)
                     /\ UsersOf(files'.users_json) =
                           Append(Users, UserEntry(arg'.username, arg'.password))
          /\ run'.button = "overwrite_user" =>
                /\ result'.add_user = Return(0)
                /\ \E i \in DOMAIN UsersOf(files'.users_json) :
                      /\ UsersOf(files'.users_json)[i] = UserEntry(arg'.username, arg'.password)
                      /\ \A j \in DOMAIN UsersOf(files'.users_json) :
                            UsersOf(files'.users_json)[j].username = arg'.username => j = i
                /\ Others(files'.users_json, arg'.username) = Others(files.users_json, arg'.username) ]_vars

\* both kinds of call have been made: a refused add, and a file of three users
C27_Witness ==
    /\ entry = "add_user"
    /\ run.button = "add_user" /\ result.add_user = Return(1)
    /\ Len(Users) = 3
    /\ \E i \in DOMAIN Users : Users[i] = UserEntry(Admin, <<"x">>)

\* a step is a click on the button: the run is that button's, the clock stands
Clicked(button) == run'.button = button /\ clock' = clock

\* the formal text a successful Compose run showed
FormalShown ==
    build_formal_output(arg.widgets.msg_type, run'.body.val, SenderInfoOf(arg.widgets),
        session_state'.message_start_ts, session_state'.message_end_ts,
        arg.widgets.selected_account, NowAt(clock))

\* C28: in swift_alliance_streamlit.py a Download PDF or Download TXT click
\* offers a file only if a Compose click completed earlier in the session,
\* and the text exported is exactly the formal text of the most recent
\* successful Compose: a successful Compose stores its formal text, every
\* other run (a Compose that fails, a Download, a Start, a login) leaves the
\* stored text alone, and a Download exports the stored text or nothing
C28_ExportIsLastComposed ==
    [][ Session =>
          /\ IF Clicked("compose") /\ run'.status = "Formal Output Preview"
             THEN session_state'.formal_text = Str(FormalShown)
             ELSE session_state'.formal_text = session_state.formal_text
          /\ (Clicked("pdf") \/ Clicked("txt")) =>
                IF session_state.formal_text.ty = "str"
                THEN /\ run'.export \in {<<>>, session_state.formal_text.s}
                     /\ run'.status \in {"PDF generated", "TXT prepared for download"}
                           => run'.export = session_state.formal_text.s
                ELSE /\ run'.export = <<>>
                     /\ run'.status = "Generate/compose the message first" ]_vars

\* a text file is offered some time after the Compose that stored its text:
\* the text exported is the one composed when the clock stood at 0
C28_Witness ==
    /\ Session /\ run.button = "txt" /\ run.status = "TXT prepared for download"
    /\ clock > 0 /\ session_state.message_end_ts = Str(Timestamp(clock))
    /\ session_state.formal_text = Str(run.export)
    /\ session_state.message_start_ts = Str(Timestamp(0))
    /\ session_state.formal_text.s =
          build_formal_output(arg.widgets.msg_type,
              ComposeBody([arg.widgets EXCEPT !.amount_text = <<"1", "2", "3", "4", ".", "5">>],
                          ParseDecimal(<<"1", "2", "3", "4", ".", "5">>).val, EnvAt(0)).val,
              SenderInfoOf(arg.widgets), Str(Timestamp(0)), Str(Timestamp(0)),
              arg.widgets.selected_account, NowAt(0))

\* C29: in streamlit_client.py, once Compose & Submit has created a new
\* message id the status shown is 'UNKNOWN' until Refresh Status is clicked
\* for that message, never the status fetched for an earlier message: the run
\* that stores a new id shows UNKNOWN, and only a Refresh click changes what
\* is shown for the stored id
C29_StatusOfThisMessage ==
    [][ entry = "client" =>
          /\ (/\ run'.button = "submit"
              /\ session_state'.last_message_id # session_state.last_message_id)
                => run'.status = "UNKNOWN"
          /\ (/\ run'.button # "refresh"
              /\ session_state'.last_message_id = session_state.last_message_id)
                => StatusShown(session_state') = StatusShown(session_state) ]_vars

\* the keys of st.session_state that hold a message
MessageKeys ==
    IF entry = "client" THEN {"last_message_id", "last_message_body", "last_formal", "last_status"}
    ELSE {"message_start_ts", "message_end_ts", "preview", "formal_text"}

\* the session is not logged in when a run starts
NotLoggedIn ==
    IF entry = "client" THEN ~Truthy(SessionGet(session_state, "auth_token"))
    ELSE ~Truthy(SessionGet(session_state, "logged_in"))

\* C30: in both Streamlit apps every run of a session that is not logged in
\* (logged_in false in swift_alliance_streamlit.py, auth_token empty in
\* streamlit_client.py) stops at the login form: no Compose, Submit, Start or
\* Download handler executes and no message key (formal_text, preview,
\* message_start_ts, last_message_id, last_formal, ...) is written
C30_LoginGate ==
    [][ ((Session \/ entry = "client") /\ NotLoggedIn) =>
          /\ run'.button \in {"", "login", "register"}
          /\ \A k \in MessageKeys :
                session_state'[k] = Absent /\ session_state[k] = Absent ]_vars

\* a Login click with a wrong password has ended at the login form: the
\* session is still not logged in and holds no message
C30_Witness ==
    /\ entry = "login" /\ run.button = "login" /\ run.status = "Invalid credentials"
    /\ arg.input_uname = Admin /\ arg.input_pwd = <<"x">>
    /\ session_state.logged_in = PyFalse
    /\ \A k \in MessageKeys : session_state[k] = Absent

====
